---- MODULE Spec2Model ----
(***************************************************************************)
(* A model of the knowledge-graph pipeline of weibiaoTool:                 *)
(*   - the taxonomy normalizer   (services/knowledge_service.py)           *)
(*   - the LLM response parser   (services/knowledge_service.py)           *)
(*   - the extraction orchestrator and its batch driver                    *)
(*   - the graph model and the graph merger (models/knowledge.py)          *)
(*   - the query engine and its history (services/query_service.py)        *)
(*   - the script writer of the graph store (services/graph_service.py)    *)
(* Python strings are TLA+ strings handled character by character; Python  *)
(* None is the sentinel string None.                                       *)
(***************************************************************************)
EXTENDS FiniteSets, Integers, Sequences, TLC

VARIABLES
    normIn,      \* the raw type string handed to a normalizer
    normKind,    \* "idle" | "entity" | "relation": which normalizer has run
    normOut,     \* the tag the normalizer returned
    parseText,   \* the raw reply text handed to the response parser
    parseOut,    \* what _parse_llm_response did on parseText
    fencedOut,   \* what _parse_llm_response did on parseText inside a code fence
    stored,      \* the ids of the documents the document store holds
    concurrency, \* max_workers of the pool of the batch
    batchPc,     \* "idle" | "start" | "collect" | "returned" | "raised": where the batch is
    docStatus,   \* the saved status of each document
    taskPc,      \* "none" | "queued" | "running" | "done" | "collected" per task
    llm,         \* what chat_completion did in each task
    llmCalls,    \* the number of chat_completion calls of each task
    future,      \* what each task returned or raised
    results,     \* the mapping document id -> graph of the batch
    failed,      \* the list of failed document ids of the batch
    batchOut,    \* what extract_knowledge_from_documents returned or raised
    heap,        \* the entity objects: reference -> fields
    heap0,       \* the heap at the time of the last merge_with call
    clock,       \* the next reading of datetime.now()
    graph,       \* the graphs by name: the entity references and the relations of each
    call,        \* the arguments of the last merge_with call
    queryKg,       \* the graph handed to the query engine or to to_dict
    cypher_query,  \* the query text handed to _execute_query_on_graph
    max_results,   \* the result cap handed to _execute_query_on_graph
    queryOut,      \* what _execute_query_on_graph returned
    loaded,        \* what KnowledgeGraph.from_dict did on queryKg.to_dict()
    query_history, \* QueryService.query_history
    query_text,    \* the question handed to query_by_natural_language
    cypherReply,   \* the text the model answers the question with, when it answers
    nlCalls,       \* the number of query_by_natural_language calls so far
    nlOut,         \* what the last query_by_natural_language call did
    cypher,        \* the script handed to write_cypher
    writePc,       \* "idle" | "running" | "returned" | "raised": where write_cypher is
    statements,    \* the statements write_cypher split the script into
    session,       \* the session.run calls so far: the statement and whether it succeeded
    writeLog,      \* the statements logged as failed
    writeOut,      \* what write_cypher returned or raised
    limit,         \* the limit handed to get_query_history
    historyOut,    \* what get_query_history returned
    savedKg,       \* the graph handed to save_knowledge_graph
    data_dir,      \* the files of KnowledgeService.data_dir: name and text of each
    loadOut,       \* what load_knowledge_graph returned
    kg_ids,        \* the ids handed to merge_knowledge_graphs
    mergedOut,     \* what merge_knowledge_graphs returned
    readOut,       \* the rows the query engine got from the files of data_dir
    retries,       \* the retries argument of APIClient.request
    backoff,       \* the backoff argument of APIClient.request
    attempt,       \* the loop variable of APIClient.request
    tried,         \* what each requests.request call so far did, in order
    sleeps,        \* the arguments of the time.sleep calls so far, in order
    requestPc,     \* "idle" | "loop" | "returned" | "raised": where request is
    requestOut     \* what request returned or raised

normVars == <<normIn, normKind, normOut>>

parseVars == <<parseText, parseOut, fencedOut>>

batchVars ==
    <<stored, concurrency, batchPc, docStatus, taskPc, llm, llmCalls, future, results, failed, batchOut>>

mergeVars == <<heap, heap0, clock, graph, call>>

queryVars ==
    <<queryKg, cypher_query, max_results, queryOut, loaded, query_history, query_text, cypherReply,
      nlCalls, nlOut>>

scriptVars == <<cypher, writePc, statements, session, writeLog, writeOut>>

historyVars == <<limit, historyOut>>

persistVars == <<savedKg, data_dir, loadOut, kg_ids, mergedOut, readOut>>

requestVars == <<retries, backoff, attempt, tried, sleeps, requestPc, requestOut>>

vars ==
    <<normVars, parseVars, batchVars, mergeVars, queryVars, scriptVars, historyVars, persistVars,
      requestVars>>

None == "<None>"

(***************************************************************************)
(* Python str primitives, character by character (ASCII).                  *)
(***************************************************************************)
UpperAlpha == "ABCDEFGHIJKLMNOPQRSTUVWXYZ"
LowerAlpha == "abcdefghijklmnopqrstuvwxyz"
Whitespace == {" ", "\n", "\t", "\r"}

\* s[i-1:i]: the character at 1-based position i, "" outside the string
Ch(s, i) == IF i >= 1 /\ i <= Len(s) THEN SubSeq(s, i, i) ELSE ""

Rest(s) == SubSeq(s, 2, Len(s))

IndexIn(c, alpha) ==
    IF \E i \in 1..Len(alpha) : Ch(alpha, i) = c
    THEN CHOOSE i \in 1..Len(alpha) : Ch(alpha, i) = c
    ELSE 0

LowerChar(c) == IF IndexIn(c, UpperAlpha) > 0 THEN Ch(LowerAlpha, IndexIn(c, UpperAlpha)) ELSE c

UpperChar(c) == IF IndexIn(c, LowerAlpha) > 0 THEN Ch(UpperAlpha, IndexIn(c, LowerAlpha)) ELSE c

\* str.lower, character by character (the string is halved so that the
\* depth of the evaluation grows with the logarithm of its length)
RECURSIVE lower(_)
lower(s) ==
    IF Len(s) = 0 THEN ""
    ELSE IF Len(s) = 1 THEN LowerChar(s)
    ELSE lower(SubSeq(s, 1, Len(s) \div 2)) \o lower(SubSeq(s, Len(s) \div 2 + 1, Len(s)))

RECURSIVE upper(_)
upper(s) == IF Len(s) = 0 THEN "" ELSE UpperChar(Ch(s, 1)) \o upper(Rest(s))

capitalize(s) == IF Len(s) = 0 THEN "" ELSE UpperChar(Ch(s, 1)) \o lower(Rest(s))

RECURSIVE lstrip(_)
lstrip(s) == IF Len(s) > 0 /\ Ch(s, 1) \in Whitespace THEN lstrip(Rest(s)) ELSE s

RECURSIVE rstrip(_)
rstrip(s) ==
    IF Len(s) > 0 /\ Ch(s, Len(s)) \in Whitespace THEN rstrip(SubSeq(s, 1, Len(s) - 1)) ELSE s

strip(s) == rstrip(lstrip(s))

(***************************************************************************)
(* Taxonomy normalizer: the two static tables and the two mapping methods. *)
(***************************************************************************)
EntityTypeMappingPairs == {
    <<"person", "person">>, <<"people", "person">>, <<"worker", "person">>, <<"operator", "person">>,
    <<"technician", "person">>, <<"engineer", "person">>, <<"Person", "person">>, <<"People", "person">>,
    <<"Worker", "person">>, <<"Operator", "person">>, <<"Technician", "person">>, <<"Engineer", "person">>,
    <<"tool", "tool">>, <<"tools", "tool">>, <<"instrument", "tool">>, <<"device", "tool">>,
    <<"equipment", "equipment">>, <<"Tool", "tool">>, <<"Tools", "tool">>, <<"Instrument", "tool">>,
    <<"Device", "tool">>, <<"Equipment", "equipment">>, <<"machine", "equipment">>, <<"motor", "equipment">>,
    <<"pump", "equipment">>, <<"valve", "equipment">>, <<"belt", "equipment">>, <<"conveyor", "equipment">>,
    <<"Machine", "equipment">>, <<"Motor", "equipment">>, <<"Pump", "equipment">>, <<"Valve", "equipment">>,
    <<"Belt", "equipment">>, <<"Conveyor", "equipment">>, <<"component", "component">>, <<"part", "component">>,
    <<"assembly", "component">>, <<"Component", "component">>, <<"Part", "component">>, <<"Assembly", "component">>,
    <<"procedure", "procedure">>, <<"process", "procedure">>, <<"operation", "procedure">>, <<"step", "procedure">>,
    <<"Procedure", "procedure">>, <<"Process", "procedure">>, <<"Operation", "procedure">>, <<"Step", "procedure">>,
    <<"material", "material">>, <<"substance", "material">>, <<"oil", "material">>, <<"lubricant", "material">>,
    <<"Material", "material">>, <<"Substance", "material">>, <<"Oil", "material">>, <<"Lubricant", "material">>,
    <<"location", "location">>, <<"place", "location">>, <<"position", "location">>, <<"site", "location">>,
    <<"Location", "location">>, <<"Place", "location">>, <<"Position", "location">>, <<"Site", "location">>,
    <<"time", "time">>, <<"date", "time">>, <<"period", "time">>, <<"duration", "time">>,
    <<"Time", "time">>, <<"Date", "time">>, <<"Period", "time">>, <<"Duration", "time">>,
    <<"other", "other">>, <<"unknown", "other">>, <<"Other", "other">>, <<"Unknown", "other">>
}

EntityTypeMappingKeys == {p[1] : p \in EntityTypeMappingPairs}

EntityTypeMapping ==
    [k \in EntityTypeMappingKeys |-> (CHOOSE p \in EntityTypeMappingPairs : p[1] = k)[2]]

\* the literal list tested by the capitalized-variant branch
EntityCapitalizedNames == {
    "Person", "Tool", "Equipment", "Component", "Procedure", "Standard", "Material",
    "Condition", "Error", "Cause", "Solution", "Maintenance", "Inspection", "Location", "Time"
}

_map_entity_type_no_lower(entity_type) ==
    IF entity_type \in EntityTypeMappingKeys
    THEN EntityTypeMapping[entity_type]
    ELSE IF capitalize(entity_type) \in EntityCapitalizedNames
         THEN strip(lower(entity_type))
         ELSE "other"

_map_entity_type(entity_type) ==
    LET normalized_type == strip(lower(entity_type))
    IN  IF entity_type \in EntityTypeMappingKeys
        THEN EntityTypeMapping[entity_type]
        ELSE IF normalized_type \in EntityTypeMappingKeys
             THEN EntityTypeMapping[normalized_type]
             ELSE IF capitalize(entity_type) \in EntityCapitalizedNames
                  THEN normalized_type
                  ELSE "other"

RelationTypeMappingPairs == {
    <<"part_of", "part_of">>, <<"used_in", "used_in">>, <<"related_to", "related_to">>, <<"causes", "causes">>,
    <<"is_solution_for", "is_solution_for">>, <<"requires", "requires">>, <<"results_in", "results_in">>,
    <<"checked_by", "checked_by">>, <<"maintained_by", "maintained_by">>, <<"follows", "follows">>,
    <<"depends_on", "depends_on">>, <<"compiled_by", "compiled_by">>, <<"compiled", "compiled_by">>,
    <<"created_by", "created_by">>, <<"created", "created_by">>, <<"operated_by", "operated_by">>,
    <<"operated", "operated_by">>, <<"located_in", "located_in">>, <<"located", "located_in">>,
    <<"contains", "contains">>, <<"belongs_to", "belongs_to">>, <<"belongs", "belongs_to">>,
    <<"connects_to", "connects_to">>, <<"connects", "connects_to">>, <<"replaces", "replaces">>,
    <<"improves", "improves">>, <<"prevents", "prevents">>, <<"other", "other">>, <<"unknown", "other">>
}

RelationTypeMappingKeys == {p[1] : p \in RelationTypeMappingPairs}

RelationTypeMapping ==
    [k \in RelationTypeMappingKeys |-> (CHOOSE p \in RelationTypeMappingPairs : p[1] = k)[2]]

RelationUpperNames == {"COMPILED", "CREATED", "OPERATED", "LOCATED", "BELONGS", "CONNECTS"}

RelationUpperByNames == {"COMPILED", "CREATED", "OPERATED"}

_map_relation_type(relation_type) ==
    LET normalized_type == strip(lower(relation_type))
    IN  IF normalized_type \in RelationTypeMappingKeys
        THEN RelationTypeMapping[normalized_type]
        ELSE IF upper(relation_type) \in RelationUpperNames
             THEN IF upper(relation_type) \in RelationUpperByNames
                  THEN normalized_type \o "_by"
                  ELSE normalized_type
             ELSE "other"

(***************************************************************************)
(* The closed enumerations of the graph model.                             *)
(***************************************************************************)
EntityType == {
    "equipment", "component", "procedure", "standard", "material", "condition",
    "error", "cause", "solution", "maintenance", "inspection", "other"
}

RelationType == {
    "part_of", "used_in", "related_to", "causes", "is_solution_for", "requires",
    "results_in", "checked_by", "maintained_by", "follows", "depends_on"
}

(***************************************************************************)
(* json.loads on the JSON subset the inputs use: objects, arrays, strings  *)
(* without escapes, integers, null/true/false, whitespace.  A JSON value   *)
(* is a tagged record: [t |-> "obj", o |-> function from key to value],    *)
(* [t |-> "arr", a |-> sequence], [t |-> "str", s |-> string],             *)
(* [t |-> "num", n |-> Int], [t |-> "bool", b |-> BOOLEAN], [t |-> "null"].*)
(* A scan result is [ok, val, pos]: pos is the position after the value.   *)
(***************************************************************************)
Digits == "0123456789"

JNull == [t |-> "null"]

JStr(s) == [t |-> "str", s |-> s]

JNum(n) == [t |-> "num", n |-> n]

JArr(a) == [t |-> "arr", a |-> a]

JObj(o) == [t |-> "obj", o |-> o]

ScanFail == [ok |-> FALSE, val |-> JNull, pos |-> 0]

ScanOk(v, p) == [ok |-> TRUE, val |-> v, pos |-> p]

RECURSIVE SkipWs(_, _)
SkipWs(s, i) == IF Ch(s, i) \in Whitespace THEN SkipWs(s, i + 1) ELSE i

\* position of the closing quote of the string literal whose body starts at i;
\* 0 when the literal is unterminated or holds a control character or escape
RECURSIVE StringEnd(_, _)
StringEnd(s, i) ==
    IF i > Len(s) THEN 0
    ELSE IF Ch(s, i) = "\"" THEN i
    ELSE IF Ch(s, i) \in {"\n", "\t", "\r", "\\"} THEN 0
    ELSE StringEnd(s, i + 1)

\* py_scanstring, called with i at the opening quote
ParseString(s, i) ==
    LET e == StringEnd(s, i + 1)
    IN  IF e = 0 THEN ScanFail ELSE ScanOk(JStr(SubSeq(s, i + 1, e - 1)), e + 1)

RECURSIVE DigitsEnd(_, _)
DigitsEnd(s, i) == IF IndexIn(Ch(s, i), Digits) > 0 /\ Ch(s, i) # "" THEN DigitsEnd(s, i + 1) ELSE i

RECURSIVE DigitsValue(_)
DigitsValue(d) ==
    IF Len(d) = 0 THEN 0
    ELSE 10 * DigitsValue(SubSeq(d, 1, Len(d) - 1)) + (IndexIn(Ch(d, Len(d)), Digits) - 1)

\* NUMBER_RE restricted to integers: -?(0|[1-9][0-9]*)
ParseNumber(s, i) ==
    LET neg == Ch(s, i) = "-"
        b == IF neg THEN i + 1 ELSE i
        e == IF Ch(s, b) = "0" THEN b + 1 ELSE DigitsEnd(s, b)
    IN  IF e = b THEN ScanFail
        ELSE ScanOk(JNum((IF neg THEN -1 ELSE 1) * DigitsValue(SubSeq(s, b, e - 1))), e)

IsLiteral(s, i, w) == i + Len(w) - 1 <= Len(s) /\ SubSeq(s, i, i + Len(w) - 1) = w

RECURSIVE ParseValue(_, _)
RECURSIVE ObjectMembers(_, _, _)
RECURSIVE ArrayItems(_, _, _)

\* JSONObject after "{" and whitespace: i is at the quote opening a key
ObjectMembers(s, i, acc) ==
    LET key == ParseString(s, i)
        c == SkipWs(s, key.pos)
        v == ParseValue(s, SkipWs(s, c + 1))
        m == SkipWs(s, v.pos)
        acc2 == (key.val.s :> v.val) @@ acc
        n == SkipWs(s, m + 1)
    IN  IF ~key.ok \/ Ch(s, c) # ":" THEN ScanFail
        ELSE IF ~v.ok THEN ScanFail
        ELSE IF Ch(s, m) = "}" THEN ScanOk(JObj(acc2), m + 1)
        ELSE IF Ch(s, m) = "," /\ Ch(s, n) = "\"" THEN ObjectMembers(s, n, acc2)
        ELSE ScanFail

\* JSONArray after "[" and whitespace: i is at the first character of an item
ArrayItems(s, i, acc) ==
    LET v == ParseValue(s, i)
        m == SkipWs(s, v.pos)
    IN  IF ~v.ok THEN ScanFail
        ELSE IF Ch(s, m) = "]" THEN ScanOk(JArr(Append(acc, v.val)), m + 1)
        ELSE IF Ch(s, m) = "," THEN ArrayItems(s, SkipWs(s, m + 1), Append(acc, v.val))
        ELSE ScanFail

\* scan_once
ParseValue(s, i) ==
    LET c == Ch(s, i)
        j == SkipWs(s, i + 1)
    IN  IF c = "" THEN ScanFail
        ELSE IF c = "\"" THEN ParseString(s, i)
        ELSE IF c = "{"
             THEN IF Ch(s, j) = "}" THEN ScanOk(JObj(<<>>), j + 1)
                  ELSE IF Ch(s, j) = "\"" THEN ObjectMembers(s, j, <<>>)
                  ELSE ScanFail
        ELSE IF c = "["
             THEN IF Ch(s, j) = "]" THEN ScanOk(JArr(<<>>), j + 1)
                  ELSE ArrayItems(s, j, <<>>)
        ELSE IF IsLiteral(s, i, "null") THEN ScanOk(JNull, i + 4)
        ELSE IF IsLiteral(s, i, "true") THEN ScanOk([t |-> "bool", b |-> TRUE], i + 4)
        ELSE IF IsLiteral(s, i, "false") THEN ScanOk([t |-> "bool", b |-> FALSE], i + 5)
        ELSE ParseNumber(s, i)

\* json.loads: ok = FALSE stands for json.JSONDecodeError
json_loads(s) ==
    LET Whole(r) == IF r.ok /\ SkipWs(s, r.pos) = Len(s) + 1 THEN [ok |-> TRUE, val |-> r.val]
                    ELSE [ok |-> FALSE, val |-> JNull]
    IN  Whole(ParseValue(s, SkipWs(s, 1)))

(***************************************************************************)
(* Response parser.  re.findall is modelled by what the two patterns match *)
(* on the text, scanning left to right for non-overlapping matches.        *)
(* A TLA+ string cannot hold the backquote, so the texts of the model      *)
(* write the backquote as the tilde, a character that is as ordinary as    *)
(* the backquote to both patterns and to json.loads; Fence is the three    *)
(* backquotes of a markdown code fence.                                    *)
(***************************************************************************)
Fence == "~~~"

\* position of the first brace at or after i, 0 when there is none
NextBrace(s, i) ==
    LET First(braces) == IF braces = {} THEN 0 ELSE CHOOSE j \in braces : \A k \in braces : j <= k
    IN  First({j \in i..Len(s) : Ch(s, j) \in {"{", "}"}})

\* json_pattern  \{(?:[^{}]|{[^{}]*})*\}  entered after its opening brace:
\* the position of the closing brace of the match, 0 when there is no match
RECURSIVE BraceMatchEnd(_, _)
BraceMatchEnd(s, i) ==
    LET b == NextBrace(s, i)
        c == NextBrace(s, b + 1)
    IN  IF b = 0 THEN 0
        ELSE IF Ch(s, b) = "}" THEN b
        ELSE IF c # 0 /\ Ch(s, c) = "}" THEN BraceMatchEnd(s, c + 1)
        ELSE 0

\* re.findall(json_pattern, response_text, re.DOTALL) from position i on:
\* the match at the first position where the pattern matches, then the
\* matches after it
RECURSIVE FindJsonObjects(_, _)
FindJsonObjects(s, i) ==
    LET Cut(j, e) == <<SubSeq(s, j, e)>> \o FindJsonObjects(s, e + 1)
        First(starts) ==
            IF starts = {} THEN <<>>
            ELSE Cut(CHOOSE j \in starts : \A k \in starts : j <= k,
                     BraceMatchEnd(s, (CHOOSE j \in starts : \A k \in starts : j <= k) + 1))
    IN  First({j \in i..Len(s) : Ch(s, j) = "{" /\ BraceMatchEnd(s, j + 1) # 0})

\* the lazy  \{.*?\}\s*FENCE  part of code_block_pattern: position of the first
\* closing brace at or after i that is followed by whitespace and a fence
FencedObjectEnd(s, i) ==
    LET First(ends) == IF ends = {} THEN 0 ELSE CHOOSE j \in ends : \A k \in ends : j <= k
    IN  First({j \in i..Len(s) : Ch(s, j) = "}" /\ IsLiteral(s, SkipWs(s, j + 1), Fence)})

\* re.findall(code_block_pattern, response_text, re.DOTALL) from position i
\* on: the match at the first fence where the pattern matches, then the
\* matches after it
RECURSIVE FindCodeBlocks(_, _)
FindCodeBlocks(s, i) ==
    LET ObjectStart(j) == SkipWs(s, IF IsLiteral(s, j + 3, "json") THEN j + 7 ELSE j + 3)
        Cut(b, e) == <<SubSeq(s, b, e)>> \o FindCodeBlocks(s, SkipWs(s, e + 1) + 3)
        Match(b) == Cut(b, FencedObjectEnd(s, b + 1))
        First(starts) ==
            IF starts = {} THEN <<>>
            ELSE Match(ObjectStart(CHOOSE j \in starts : \A k \in starts : j <= k))
    IN  First({j \in i..Len(s) : /\ IsLiteral(s, j, Fence)
                                  /\ Ch(s, ObjectStart(j)) = "{"
                                  /\ FencedObjectEnd(s, ObjectStart(j) + 1) # 0})

\* data.get(key, default) on a parsed mapping
JGet(data, key, default) == IF key \in DOMAIN data.o THEN data.o[key] ELSE default

\* the exception, if any, of the log line
\*   len(data.get('entities', [])) ... len(data.get('relations', []))
\* "" when it evaluates
LogCountsException(data) ==
    IF data.t # "obj" THEN "AttributeError"
    ELSE IF \E k \in {"entities", "relations"} : JGet(data, k, JArr(<<>>)).t \notin {"arr", "obj", "str"}
         THEN "TypeError"
         ELSE ""

EmptyTriple ==
    JObj(("entities" :> JArr(<<>>)) @@ ("relations" :> JArr(<<>>)) @@ ("cypher_statements" :> JArr(<<>>)))

ParseReturn(data) == [exc |-> "", data |-> data]

ParseRaise(e) == [exc |-> e, data |-> JNull]

\* the loop over the extracted candidates: the first that json.loads accepts
RECURSIVE TryCandidates(_)
TryCandidates(matches) ==
    LET Loaded(r) ==
            IF r.ok
            THEN IF LogCountsException(r.val) # "" THEN ParseRaise(LogCountsException(r.val))
                 ELSE ParseReturn(r.val)
            ELSE TryCandidates(Tail(matches))
    IN  IF matches = <<>> THEN ParseReturn(EmptyTriple)
        ELSE Loaded(json_loads(Head(matches)))

_parse_llm_response(response_text) ==
    LET Matches(braces) == IF braces # <<>> THEN braces ELSE FindCodeBlocks(response_text, 1)
        Loaded(r) ==
            IF r.ok
            THEN IF LogCountsException(r.val) # "" THEN ParseRaise(LogCountsException(r.val))
                 ELSE ParseReturn(r.val)
            ELSE TryCandidates(Matches(FindJsonObjects(response_text, 1)))
    IN  Loaded(json_loads(response_text))

(***************************************************************************)
(* Building a graph from the parsed reply (_extract_knowledge_with_llm,    *)
(* lines 303-364) and the model classes it instantiates.  An operation     *)
(* that can raise gives Returned(value) or Raised(exception name).  The    *)
(* pydantic in use is version 2 (config/settings.py imports                *)
(* pydantic_settings): fields of type str accept only strings, unknown     *)
(* keys are ignored.  Of the two timestamps the model keeps updated_at.    *)
(***************************************************************************)
Returned(v) == [exc |-> "", val |-> v]

Raised(e) == [exc |-> e, val |-> JNull]

\* Python  w in s  on two strings
Contains(s, w) == \E i \in 1..(Len(s) - Len(w) + 1) : SubSeq(s, i, i + Len(w) - 1) = w

\* Python  key in x  on a parsed value that supports it: a key of a mapping,
\* an element of a list, a substring of a string
HasKey(x, key) ==
    IF x.t = "obj" THEN key \in DOMAIN x.o
    ELSE IF x.t = "arr" THEN \E i \in DOMAIN x.a : x.a[i] = JStr(key)
    ELSE Contains(x.s, key)

RECURSIVE SetToSeq(_)
SetToSeq(S) ==
    IF S = {} THEN <<>>
    ELSE LET x == CHOOSE x \in S : TRUE
         IN  <<x>> \o SetToSeq(S \ {x})

\* the items  for x in v  visits: the elements of a list, the keys of a
\* mapping, the characters of a string
IterItems(v) ==
    IF v.t = "arr" THEN v.a
    ELSE IF v.t = "obj" THEN [i \in 1..Cardinality(DOMAIN v.o) |-> JStr(SetToSeq(DOMAIN v.o)[i])]
    ELSE [i \in 1..Len(v.s) |-> JStr(SubSeq(v.s, i, i))]

\* str(x) inside the f-string of the default relation id; an endpoint or
\* type that is not a string never reaches a graph (Relation rejects it)
Format(x) == IF x.t = "str" THEN x.s ELSE "?"

\* the loop body of lines 306-324 on one item of kg_data["relations"]
RelationData(rel) ==
    IF rel.t \notin {"obj", "arr", "str"} THEN Raised("TypeError")
    ELSE IF HasKey(rel, "from") /\ HasKey(rel, "to")
    THEN IF rel.t # "obj" THEN Raised("AttributeError")
         ELSE IF JGet(rel, "type", JStr("other")).t # "str" THEN Raised("AttributeError")
         ELSE IF "type" \notin DOMAIN rel.o THEN Raised("KeyError")
         ELSE Returned(JObj(
                ("id" :> JGet(rel, "id", JStr(Format(rel.o["from"]) \o "-" \o Format(rel.o["to"])
                                               \o "-" \o Format(rel.o["type"]))))
                @@ ("source" :> rel.o["from"])
                @@ ("target" :> rel.o["to"])
                @@ ("type" :> JStr(_map_relation_type(rel.o["type"].s)))
                @@ ("description" :> JGet(rel, "description", JStr("")))
                @@ ("properties" :> JGet(rel, "properties", JObj(<<>>)))))
    ELSE IF ~HasKey(rel, "type") THEN Returned(rel)
    ELSE IF rel.t # "obj" THEN Raised("TypeError")
    ELSE IF rel.o["type"].t # "str" THEN Raised("AttributeError")
    ELSE Returned(JObj(("type" :> JStr(_map_relation_type(rel.o["type"].s))) @@ rel.o))

\* the loop body of lines 327-333 on one item of kg_data["entities"]
EntityData(entity) ==
    LET type == JGet(entity, "type", JStr("other"))
    IN  IF entity.t # "obj" THEN Raised("AttributeError")
        ELSE IF type.t \in {"arr", "obj"} THEN Raised("TypeError")
        ELSE IF type.t # "str" THEN Raised("AttributeError")
        ELSE Returned(JObj(("type" :> JStr(_map_entity_type(type.s))) @@ entity.o))

\* a loop or comprehension whose steps gave the outcomes r in turn: the
\* first exception ends it, otherwise the list of the values
AllItems(r) ==
    LET bad == {i \in DOMAIN r : r[i].exc # ""}
    IN  IF bad = {} THEN Returned([i \in DOMAIN r |-> r[i].val])
        ELSE r[CHOOSE i \in bad : \A j \in bad : i <= j]

\* pydantic validation of one field of a model class
IsStr(data, key) == key \in DOMAIN data.o /\ data.o[key].t = "str"

IsOptionalStr(data, key) == key \notin DOMAIN data.o \/ data.o[key].t \in {"str", "null"}

IsOptionalDict(data, key) == key \notin DOMAIN data.o \/ data.o[key].t = "obj"

OptionalStr(data, key) == IF IsStr(data, key) THEN data.o[key].s ELSE None

\* isinstance(data[key], str): a string or a member of a str enumeration
IsStrInstance(data, key) == key \in DOMAIN data.o /\ data.o[key].t \in {"str", "enum"}

\* a timestamp field: absent (the default factory reads the clock), a
\* datetime, or a number pydantic reads as one; a string goes through
\* datetime.fromisoformat, which the strings of the model do not satisfy
IsOptionalTime(data, key) == key \notin DOMAIN data.o \/ data.o[key].t \in {"datetime", "num"}

TimeOr(data, key, now) == IF key \in DOMAIN data.o THEN data.o[key].n ELSE now

\* Entity.from_dict on a mapping, at time now
Entity_from_dict(data, now) ==
    IF IsStr(data, "updated_at") THEN Raised("ValueError")
    ELSE IF IsStrInstance(data, "type") /\ data.o["type"].s \notin EntityType THEN Raised("ValueError")
    ELSE IF ~(/\ IsStr(data, "id") /\ IsStr(data, "name") /\ IsStrInstance(data, "type")
              /\ IsOptionalStr(data, "description") /\ IsOptionalStr(data, "source_document")
              /\ IsOptionalStr(data, "source_table") /\ IsOptionalStr(data, "normalized_name")
              /\ IsOptionalDict(data, "properties") /\ IsOptionalTime(data, "updated_at"))
         THEN Raised("ValidationError")
    ELSE Returned([id |-> data.o["id"].s, name |-> data.o["name"].s, type |-> data.o["type"].s,
                   description |-> OptionalStr(data, "description"),
                   source_document |-> OptionalStr(data, "source_document"),
                   source_table |-> OptionalStr(data, "source_table"),
                   properties |-> JGet(data, "properties", JObj(<<>>)).o,
                   normalized_name |-> OptionalStr(data, "normalized_name"),
                   updated_at |-> TimeOr(data, "updated_at", now)])

\* Relation.from_dict on an item of relations_data or a mapping, at time now
Relation_from_dict(data, now) ==
    IF data.t # "obj" THEN Raised("TypeError")
    ELSE IF IsStr(data, "updated_at") THEN Raised("ValueError")
    ELSE IF IsStrInstance(data, "type") /\ data.o["type"].s \notin RelationType THEN Raised("ValueError")
    ELSE IF ~(/\ IsStr(data, "id") /\ IsStrInstance(data, "type")
              /\ IsStr(data, "source") /\ IsStr(data, "target")
              /\ IsOptionalStr(data, "description") /\ IsOptionalStr(data, "source_document")
              /\ IsOptionalStr(data, "source_table") /\ IsOptionalDict(data, "properties")
              /\ IsOptionalTime(data, "updated_at"))
         THEN Raised("ValidationError")
    ELSE Returned([id |-> data.o["id"].s, type |-> data.o["type"].s,
                   source |-> data.o["source"].s, target |-> data.o["target"].s,
                   description |-> OptionalStr(data, "description"),
                   source_document |-> OptionalStr(data, "source_document"),
                   source_table |-> OptionalStr(data, "source_table"),
                   properties |-> JGet(data, "properties", JObj(<<>>)).o,
                   updated_at |-> TimeOr(data, "updated_at", now)])

\* what llm_client.chat_completion did: it raised, it returned a response
\* without the "choices" key, or it returned a response whose content is text
LLMRaise == [kind |-> "raise", text |-> ""]

LLMNoChoices == [kind |-> "no_choices", text |-> ""]

LLMReply(text) == [kind |-> "reply", text |-> text]

\* the graph of an except block (lines 294-300 and 312-318)
DegradedGraph_no_error_key(source_doc_id, message) ==
    [id |-> "error_" \o source_doc_id, entities |-> <<>>, relations |-> <<>>, metadata |-> <<>>]

DegradedGraph(source_doc_id, message) ==
    [id |-> "error_" \o source_doc_id, entities |-> <<>>, relations |-> <<>>,
     metadata |-> [error |-> message]]

\* _extract_knowledge_with_llm once chat_completion has done outcome; the
\* messages are written in English and the graph id leaves out its
\* int(time.time()) suffix
\* the statements run in turn, each stage taking the values of the ones
\* before it: the two loops over kg_data (lines 306-333), the two list
\* comprehensions (lines 336-337), the graph (lines 340-355)
_extract_knowledge_with_llm(outcome, source_doc_id, now) ==
    LET Graph(kg_data, entities, relations) ==
            IF relations.exc # "" THEN relations
            ELSE Returned([id |-> "kg_" \o source_doc_id,
                           entities |-> entities.val, relations |-> relations.val,
                           metadata |-> [source_document |-> source_doc_id,
                                         cypher_statements |->
                                             JGet(kg_data, "cypher_statements", JArr(<<>>))]])
        Relations(data) == AllItems([i \in DOMAIN data |-> Relation_from_dict(data[i], now)])
        FromEntities(kg_data, relations_data, entities) ==
            IF entities.exc # "" THEN entities
            ELSE Graph(kg_data, entities, Relations(relations_data.val))
        Entities(data) == AllItems([i \in DOMAIN data |-> Entity_from_dict(data[i], now)])
        FromEntitiesData(kg_data, relations_data, entities_data) ==
            IF entities_data.exc # "" THEN entities_data
            ELSE FromEntities(kg_data, relations_data, Entities(entities_data.val))
        EntitiesData(items) == AllItems([i \in DOMAIN items |-> EntityData(items[i])])
        FromRelationsData(kg_data, relations_data) ==
            IF relations_data.exc # "" THEN relations_data
            ELSE FromEntitiesData(kg_data, relations_data,
                                  EntitiesData(IterItems(JGet(kg_data, "entities", JArr(<<>>)))))
        RelationsData(items) == AllItems([i \in DOMAIN items |-> RelationData(items[i])])
        FromParsed(parsed) ==
            IF parsed.exc # "" THEN Raised(parsed.exc)
            ELSE FromRelationsData(parsed.data,
                                   RelationsData(IterItems(JGet(parsed.data, "relations", JArr(<<>>)))))
    IN  IF outcome.kind = "raise"
        THEN Returned(DegradedGraph(source_doc_id, "LLM call failed"))
        ELSE IF outcome.kind = "no_choices"
        THEN Returned(DegradedGraph(source_doc_id, "parsing the response failed"))
        ELSE FromParsed(_parse_llm_response(outcome.text))

(***************************************************************************)
(* The graph model and the graph merger (models/knowledge.py).  Entity     *)
(* objects live in a heap, a function from object references (positive     *)
(* integers) to the fields of the object, and a graph holds the list of    *)
(* the references of its entities: with pydantic 2 a model instance passed *)
(* to a constructor is kept as it is, so KnowledgeGraph(entities=          *)
(* self.entities.copy()) is a new list of the same objects.  Relations are *)
(* never written after construction and are held by value.  datetime.now() *)
(* is a clock that advances with every step of the merger that reads it.   *)
(***************************************************************************)
\* inner whitespace runs of s collapsed to one space, trailing ones dropped
RECURSIVE CollapseWs(_)
CollapseWs(s) ==
    IF strip(s) = "" THEN ""
    ELSE IF Ch(s, 1) \in Whitespace THEN " " \o CollapseWs(lstrip(s))
    ELSE Ch(s, 1) \o CollapseWs(Rest(s))

\* " ".join(s.split())
JoinSplit(s) == CollapseWs(lstrip(s))

\* Python truth value of an Optional[str]
Truthy(v) == v \notin {None, ""}

\* Python  a or b  on Optional[str] values
Or(a, b) == IF Truthy(a) THEN a ELSE b

\* Entity.normalize_name on the object o of heap h: the value returned and
\* the heap after the call
normalize_name_caches_stripped_name(h, o) ==
    IF Truthy(h[o].normalized_name)
    THEN [val |-> h[o].normalized_name, heap |-> h]
    ELSE [val |-> JoinSplit(lower(strip(h[o].name))),
          heap |-> [h EXCEPT ![o].normalized_name = strip(h[o].name)]]

normalize_name(h, o) ==
    LET Cache(normalized) ==
            [val |-> normalized, heap |-> [h EXCEPT ![o].normalized_name = normalized]]
    IN  IF Truthy(h[o].normalized_name)
        THEN [val |-> h[o].normalized_name, heap |-> h]
        ELSE Cache(JoinSplit(lower(strip(h[o].name))))

\* lines 333-337: the scan of merged.entities from position i for the first
\* entity with the normalized name and the type of entity; found is its
\* reference, 0 when the scan ends without one
RECURSIVE FindEntity(_, _, _, _)
FindEntity(h, entities, i, entity) ==
    LET e == entities[i]
        Compare(n1, n2) ==
            IF n1.val = n2.val /\ h[e].type = h[entity].type
            THEN [found |-> e, heap |-> n2.heap]
            ELSE FindEntity(n2.heap, entities, i + 1, entity)
        Names(n1) == Compare(n1, normalize_name(n1.heap, entity))
    IN  IF i > Len(entities) THEN [found |-> 0, heap |-> h]
        ELSE Names(normalize_name(h, e))

\* lines 341-346: found.update(...) with the fields of entity, at time now
UpdateFound(h, found, entity, now) ==
    [h EXCEPT ![found] =
        [@ EXCEPT !.description = Or(h[entity].description, h[found].description),
                  !.properties = h[entity].properties @@ h[found].properties,
                  !.source_document = Or(h[entity].source_document, h[found].source_document),
                  !.source_table = Or(h[entity].source_table, h[found].source_table),
                  !.updated_at = now]]

\* lines 331-351: the loop over other.entities from position i; m holds the
\* heap, the clock, the entity list of merged and entity_map
RECURSIVE MergeEntities(_, _, _)
MergeEntities(m, others, i) ==
    LET entity == others[i]
        Place(scan, id) ==
            IF scan.found # 0
            THEN MergeEntities(
                   [heap |-> UpdateFound(scan.heap, scan.found, entity, m.clock),
                    clock |-> m.clock + 1,
                    entities |-> m.entities,
                    entity_map |-> (id :> scan.heap[scan.found].id) @@ m.entity_map],
                   others, i + 1)
            ELSE MergeEntities(
                   [heap |-> scan.heap,
                    clock |-> m.clock + 1,
                    entities |-> Append(m.entities, entity),
                    entity_map |-> (id :> id) @@ m.entity_map],
                   others, i + 1)
        Scanned(scan) == Place(scan, scan.heap[entity].id)
    IN  IF i > Len(others) THEN m
        ELSE Scanned(FindEntity(m.heap, m.entities, 1, entity))

MapId_unmapped(entity_map, id) == id

\* entity_map.get(id, id)
MapId(entity_map, id) == IF id \in DOMAIN entity_map THEN entity_map[id] ELSE id

RECURSIVE MergeRelations(_, _, _, _)

\* the loop without the test of lines 360-369: every relation is appended
MergeRelations_without_exists_check(m, others, i, entity_map) ==
    LET relation == others[i]
        new_relation == [relation EXCEPT !.source = MapId(entity_map, relation.source),
                                         !.target = MapId(entity_map, relation.target),
                                         !.updated_at = m.clock]
    IN  IF i > Len(others) THEN m
        ELSE MergeRelations([clock |-> m.clock + 1, relations |-> Append(m.relations, new_relation)],
                            others, i + 1, entity_map)

\* the loop skipping each relation with an end that entity_map lacks
MergeRelations_drops_unmapped_ends(m, others, i, entity_map) ==
    LET relation == others[i]
        new_relation == [relation EXCEPT !.source = MapId(entity_map, relation.source),
                                         !.target = MapId(entity_map, relation.target),
                                         !.updated_at = m.clock]
        exists == \E j \in DOMAIN m.relations :
                      /\ m.relations[j].type = new_relation.type
                      /\ m.relations[j].source = new_relation.source
                      /\ m.relations[j].target = new_relation.target
    IN  IF i > Len(others) THEN m
        ELSE IF exists \/ {relation.source, relation.target} \ DOMAIN entity_map # {}
             THEN MergeRelations(m, others, i + 1, entity_map)
        ELSE MergeRelations([clock |-> m.clock + 1, relations |-> Append(m.relations, new_relation)],
                            others, i + 1, entity_map)

\* lines 355-381: the loop over other.relations from position i; m holds the
\* clock and the relation list of merged
MergeRelations(m, others, i, entity_map) ==
    LET relation == others[i]
        new_source == MapId(entity_map, relation.source)
        new_target == MapId(entity_map, relation.target)
        exists == \E j \in DOMAIN m.relations :
                      /\ m.relations[j].type = relation.type
                      /\ m.relations[j].source = new_source
                      /\ m.relations[j].target = new_target
        new_relation == [relation EXCEPT !.source = new_source, !.target = new_target,
                                         !.updated_at = m.clock]
    IN  IF i > Len(others) THEN m
        ELSE IF exists THEN MergeRelations(m, others, i + 1, entity_map)
        ELSE MergeRelations([clock |-> m.clock + 1, relations |-> Append(m.relations, new_relation)],
                            others, i + 1, entity_map)

\* merge_with with the relation loop outside the test of merge_entities
merge_with_relations_without_entities(h, now, self, other, merge_entities, merge_relations) ==
    LET start == [heap |-> h, clock |-> now, entities |-> self.entities, entity_map |-> <<>>]
        Merged(e, r) ==
            [merged |-> [id |-> self.id, entities |-> e.entities, relations |-> r.relations],
             heap |-> e.heap, clock |-> r.clock]
        Relations(e, r0) ==
            Merged(e, IF merge_relations
                      THEN MergeRelations(r0, other.relations, 1, e.entity_map)
                      ELSE r0)
        Entities(e) == Relations(e, [clock |-> e.clock, relations |-> self.relations])
    IN  Entities(IF merge_entities THEN MergeEntities(start, other.entities, 1) ELSE start)

\* KnowledgeGraph.merge_with on the graphs self and other of heap h at time
\* now: the merged graph, the heap and the clock after the call
merge_with(h, now, self, other, merge_entities, merge_relations) ==
    LET start == [heap |-> h, clock |-> now, entities |-> self.entities, entity_map |-> <<>>]
        Merged(e, r) ==
            [merged |-> [id |-> self.id, entities |-> e.entities, relations |-> r.relations],
             heap |-> e.heap, clock |-> r.clock]
        Relations(e, r0) ==
            Merged(e, IF merge_entities /\ merge_relations
                      THEN MergeRelations(r0, other.relations, 1, e.entity_map)
                      ELSE r0)
        Entities(e) == Relations(e, [clock |-> e.clock, relations |-> self.relations])
    IN  Entities(IF merge_entities THEN MergeEntities(start, other.entities, 1) ELSE start)

(***************************************************************************)
(* Serialization (models/knowledge.py, to_dict / from_dict).  A graph held *)
(* by value is [id, name, entities, relations, metadata] with the entity   *)
(* and relation records of the graph model; the description and the two    *)
(* timestamps of the graph itself are left out.  to_dict is pydantic's     *)
(* dict(): a mapping from field name to the field's value as a Python      *)
(* object, here a tagged value: [t |-> "enum", s |-> tag] is a member of a *)
(* str enumeration, [t |-> "datetime", n |-> reading] a datetime.          *)
(***************************************************************************)
\* an Optional[str] field as a Python object
OptionalValue(v) == IF v = None THEN JNull ELSE JStr(v)

Entity_to_dict_without_normalized_name(e) ==
    JObj([id |-> JStr(e.id), name |-> JStr(e.name), type |-> [t |-> "enum", s |-> e.type],
          description |-> OptionalValue(e.description),
          source_document |-> OptionalValue(e.source_document),
          source_table |-> OptionalValue(e.source_table),
          properties |-> JObj(e.properties),
          updated_at |-> [t |-> "datetime", n |-> e.updated_at]])

Entity_to_dict(e) ==
    JObj([id |-> JStr(e.id), name |-> JStr(e.name), type |-> [t |-> "enum", s |-> e.type],
          description |-> OptionalValue(e.description),
          source_document |-> OptionalValue(e.source_document),
          source_table |-> OptionalValue(e.source_table),
          properties |-> JObj(e.properties),
          normalized_name |-> OptionalValue(e.normalized_name),
          updated_at |-> [t |-> "datetime", n |-> e.updated_at]])

Relation_to_dict(r) ==
    JObj([id |-> JStr(r.id), type |-> [t |-> "enum", s |-> r.type],
          source |-> JStr(r.source), target |-> JStr(r.target),
          description |-> OptionalValue(r.description),
          source_document |-> OptionalValue(r.source_document),
          source_table |-> OptionalValue(r.source_table),
          properties |-> JObj(r.properties),
          updated_at |-> [t |-> "datetime", n |-> r.updated_at]])

KnowledgeGraph_to_dict(g) ==
    JObj([id |-> JStr(g.id), name |-> JStr(g.name),
          entities |-> JArr([i \in DOMAIN g.entities |-> Entity_to_dict(g.entities[i])]),
          relations |-> JArr([i \in DOMAIN g.relations |-> Relation_to_dict(g.relations[i])]),
          metadata |-> JObj(g.metadata)])

\* KnowledgeGraph.from_dict on a Python object, at time now: lines 245-249
\* turn the items of the two lists into model instances, line 251 validates
\* the fields (the two lists default to empty ones)
KnowledgeGraph_from_dict(data, now) ==
    LET FromItem(item) == IF item.t = "obj" THEN Entity_from_dict(item, now) ELSE Raised("TypeError")
        Items(key) == IF key \in DOMAIN data.o THEN data.o[key].a ELSE <<>>
        Entities(items) == AllItems([i \in DOMAIN items |-> FromItem(items[i])])
        Relations(items) == AllItems([i \in DOMAIN items |-> Relation_from_dict(items[i], now)])
        Graph(entities, relations) ==
            IF entities.exc # "" THEN entities
            ELSE IF relations.exc # "" THEN relations
            ELSE IF ~(IsStr(data, "id") /\ IsStr(data, "name") /\ IsOptionalDict(data, "metadata"))
                 THEN Raised("ValidationError")
            ELSE Returned([id |-> data.o["id"].s, name |-> data.o["name"].s,
                           entities |-> entities.val, relations |-> relations.val,
                           metadata |-> JGet(data, "metadata", JObj(<<>>)).o])
    IN  IF data.t # "obj" THEN Raised("TypeError")
        ELSE IF \E key \in {"entities", "relations"} \cap DOMAIN data.o : data.o[key].t # "arr"
             THEN Raised("ValidationError")
        ELSE Graph(Entities(Items("entities")), Relations(Items("relations")))

(***************************************************************************)
(* Query engine (services/query_service.py).                               *)
(***************************************************************************)
\* the characters \w matches
WordChars == LowerAlpha \o UpperAlpha \o Digits \o "_"

\* the position after the longest run of \w characters that starts at i
RECURSIVE WordEnd(_, _)
WordEnd(s, i) ==
    IF Ch(s, i) # "" /\ IndexIn(Ch(s, i), WordChars) > 0 THEN WordEnd(s, i + 1) ELSE i

\* re.search(r"match\s*\((\w*):(\w+)", s): group 2 of the leftmost match,
\* None when there is no match
EntityTypeSearch(s) ==
    LET Group(from, to) == IF to > from THEN SubSeq(s, from, to - 1) ELSE None
        Colon(c) == IF Ch(s, c) = ":" THEN Group(c + 1, WordEnd(s, c + 1)) ELSE None
        Paren(p) == IF Ch(s, p) = "(" THEN Colon(WordEnd(s, p + 1)) ELSE None
        MatchAt(i) == IF IsLiteral(s, i, "match") THEN Paren(SkipWs(s, i + 5)) ELSE None
        starts == {i \in 1..Len(s) : MatchAt(i) # None}
    IN  IF starts = {} THEN None ELSE MatchAt(CHOOSE i \in starts : \A j \in starts : i <= j)

\* re.search(r"-\[:([\w]+)\]->", s): group 1 of the leftmost match, None
\* when there is no match
RelationTypeSearch(s) ==
    LET Group(from, to) ==
            IF to > from /\ IsLiteral(s, to, "]->") THEN SubSeq(s, from, to - 1) ELSE None
        MatchAt(i) == IF IsLiteral(s, i, "-[:") THEN Group(i + 3, WordEnd(s, i + 3)) ELSE None
        starts == {i \in 1..Len(s) : MatchAt(i) # None}
    IN  IF starts = {} THEN None ELSE MatchAt(CHOOSE i \in starts : \A j \in starts : i <= j)

\* the Python slice s[:n]
SliceTo(s, n) ==
    IF n >= 0 THEN SubSeq(s, 1, IF n < Len(s) THEN n ELSE Len(s))
    ELSE SubSeq(s, 1, Len(s) + n)

_execute_query_on_graph_as_path_query(queryGraph, query, cap) ==
    SliceTo([i \in DOMAIN queryGraph.relations |-> Relation_to_dict(queryGraph.relations[i])], cap)

\* QueryService._execute_query_on_graph
_execute_query_on_graph(queryGraph, query, cap) ==
    LET Entities(matching) == [i \in DOMAIN matching |-> Entity_to_dict(matching[i])]
        Relations(matching) == [i \in DOMAIN matching |-> Relation_to_dict(matching[i])]
        OfEntityType(entity_type) ==
            IF entity_type = None THEN <<>>
            ELSE Entities(SelectSeq(queryGraph.entities, LAMBDA entity : entity.type = entity_type))
        OfRelationType(relation_type) ==
            IF relation_type = None THEN <<>>
            ELSE Relations(SelectSeq(queryGraph.relations, LAMBDA relation : relation.type = relation_type))
        Results(query_lower) ==
            IF Contains(query_lower, "match")
            THEN OfEntityType(EntityTypeSearch(query_lower))
            ELSE IF Contains(query_lower, "match") /\ Contains(query_lower, "-")
                    /\ Contains(query_lower, ">")
            THEN OfRelationType(RelationTypeSearch(query_lower))
            ELSE IF Contains(query_lower, "shortestpath") \/ Contains(query_lower, "path")
            THEN Relations(queryGraph.relations)
            ELSE <<>>
    IN  SliceTo(Results(lower(query)), cap)

\* _extract_cypher_from_response: group 0 of the leftmost match of
\* (MATCH|CREATE|MERGE|RETURN).* without regard to case, which runs to the
\* end of the line; the stripped text when there is no match
_extract_cypher_from_response(response_text) ==
    LET Keyword(low, i) == \E w \in {"match", "create", "merge", "return"} : IsLiteral(low, i, w)
        LineEnd(i) ==
            LET breaks == {j \in i..Len(response_text) : Ch(response_text, j) = "\n"}
            IN  IF breaks = {} THEN Len(response_text)
                ELSE (CHOOSE j \in breaks : \A k \in breaks : j <= k) - 1
        From(i) == SubSeq(response_text, i, LineEnd(i))
        Group(starts) ==
            IF starts = {} THEN strip(response_text)
            ELSE From(CHOOSE i \in starts : \A j \in starts : i <= j)
        Search(low) == Group({i \in 1..Len(low) : Keyword(low, i)})
    IN  Search(lower(response_text))

\* QueryService._load_knowledge_graph on the text of an existing graph file:
\* line 376 hands the text itself, a str, to KnowledgeGraph.from_dict; what
\* from_dict raises is caught on line 377 and the method returns None
_load_knowledge_graph(file_text) ==
    LET Caught(r) == IF r.exc # "" THEN None ELSE r.val
    IN  Caught(KnowledgeGraph_from_dict(JStr(file_text), 0))

\* QueryService._execute_cypher_query over the graph files of the data
\* directory (kg_ids is None: every file is read)
_execute_cypher_query(files, query, cap) ==
    LET Results(kg) == IF kg = None THEN <<>> ELSE _execute_query_on_graph(kg, query, cap)
        RECURSIVE AllResults(_)
        AllResults(i) ==
            IF i > Len(files) THEN <<>>
            ELSE Results(_load_knowledge_graph(files[i])) \o AllResults(i + 1)
    IN  IF files = <<>> THEN <<>> ELSE SliceTo(AllResults(1), cap)

\* the length self.query_history is cut back to (line 523)
HistoryCap == 100

\* QueryService._save_query_history: the history after the call at time now
_save_query_history(history, text, query, found, now) ==
    LET Limit(appended) ==
            IF Len(appended) > HistoryCap
            THEN SubSeq(appended, Len(appended) - HistoryCap + 1, Len(appended))
            ELSE appended
    IN  Limit(Append(history, [query_text |-> text, cypher_query |-> query,
                               result_count |-> Len(found), timestamp |-> now]))

(***************************************************************************)
(* Script writer (services/graph_service.py).                              *)
(***************************************************************************)
\* cypher.split('\n')
RECURSIVE SplitLines(_)
SplitLines(s) ==
    LET breaks == {i \in 1..Len(s) : Ch(s, i) = "\n"}
        First(i) == <<SubSeq(s, 1, i - 1)>> \o SplitLines(SubSeq(s, i + 1, Len(s)))
    IN  IF breaks = {} THEN <<s>> ELSE First(CHOOSE i \in breaks : \A j \in breaks : i <= j)

\* GraphService._split_cypher_statements
_split_cypher_statements(script) ==
    LET RECURSIVE Scan(_, _, _, _)
        Take(lines, i, line, split_statements, current_statement) ==
            IF line = "" \/ IsLiteral(line, 1, "--")
            THEN Scan(lines, i + 1, split_statements, current_statement)
            ELSE IF Ch(line, Len(line)) = ";"
            THEN Scan(lines, i + 1,
                      Append(split_statements, strip(current_statement \o line \o "\n")), "")
            ELSE Scan(lines, i + 1, split_statements, current_statement \o line \o "\n")
        Scan(lines, i, split_statements, current_statement) ==
            IF i > Len(lines)
            THEN IF strip(current_statement) # ""
                 THEN Append(split_statements, strip(current_statement))
                 ELSE split_statements
            ELSE Take(lines, i, strip(lines[i]), split_statements, current_statement)
    IN  IF strip(script) = "" THEN <<>> ELSE Scan(SplitLines(script), 1, <<>>, "")

\* what session.run raises: an exception of the driver, whose message may
\* or may not quote the statement
DriverErrors(statement) == {
    [exc |-> "CypherSyntaxError", val |-> JStr("Invalid input: " \o statement)],
    [exc |-> "ServiceUnavailable", val |-> JStr("Unable to retrieve routing information")]
}

(***************************************************************************)
(* Inputs of the normalizer check: every declared key in its lowercase,    *)
(* capitalized and upper-case form, the tag names of the extraction prompt *)
(* in the same forms, and every string over TypeAlphabet up to MaxTypeLen. *)
(***************************************************************************)
MaxTypeLen == 4

TypeAlphabet == "oilOL \n"

RECURSIVE StringsUpTo(_, _)
StringsUpTo(alpha, n) ==
    IF n = 0 THEN {""}
    ELSE LET S == StringsUpTo(alpha, n - 1)
         IN  S \cup {s \o Ch(alpha, i) : s \in S, i \in 1..Len(alpha)}

\* the entity tags the extraction prompt offers the model (lines 585-600)
PromptEntityTags == {
    "equipment", "component", "procedure", "standard", "material", "condition", "error", "cause",
    "solution", "maintenance", "inspection", "person", "tool", "location", "time", "other"
}

CaseForms(w) == {lower(w), capitalize(w), upper(w)}

DeclaredEntitySynonyms == {lower(k) : k \in EntityTypeMappingKeys}

EntityWords == DeclaredEntitySynonyms \cup PromptEntityTags

TypeInputs ==
    UNION {CaseForms(w) : w \in EntityWords \cup RelationTypeMappingKeys}
        \cup {" " \o w : w \in PromptEntityTags} \cup {w \o "\n" : w \in PromptEntityTags}
        \cup StringsUpTo(TypeAlphabet, MaxTypeLen)

Pending == [exc |-> "pending", data |-> JNull]

NormIdle ==
    /\ normIn = ""
    /\ normKind = "idle"
    /\ normOut = ""

ParseIdle ==
    /\ parseText = ""
    /\ parseOut = Pending
    /\ fencedOut = Pending

BatchIdle ==
    /\ stored = {}
    /\ concurrency = 0
    /\ batchPc = "idle"
    /\ docStatus = <<>>
    /\ taskPc = <<>>
    /\ llm = <<>>
    /\ llmCalls = <<>>
    /\ future = <<>>
    /\ results = <<>>
    /\ failed = <<>>
    /\ batchOut = Pending

MergeIdle ==
    /\ heap = <<>>
    /\ heap0 = <<>>
    /\ clock = 0
    /\ graph = <<>>
    /\ call = <<>>

QueryIdle ==
    /\ queryKg = <<>>
    /\ cypher_query = ""
    /\ max_results = 0
    /\ queryOut = Pending
    /\ loaded = Pending
    /\ query_history = <<>>
    /\ query_text = ""
    /\ cypherReply = ""
    /\ nlCalls = 0
    /\ nlOut = Pending

ScriptIdle ==
    /\ cypher = ""
    /\ writePc = "idle"
    /\ statements = <<>>
    /\ session = <<>>
    /\ writeLog = <<>>
    /\ writeOut = Pending

HistoryIdle ==
    /\ limit = 0
    /\ historyOut = Pending

PersistIdle ==
    /\ savedKg = <<>>
    /\ data_dir = <<>>
    /\ loadOut = Pending
    /\ kg_ids = <<>>
    /\ mergedOut = Pending
    /\ readOut = Pending

RequestIdle ==
    /\ retries = 0
    /\ backoff = 0
    /\ attempt = 0
    /\ tried = <<>>
    /\ sleeps = <<>>
    /\ requestPc = "idle"
    /\ requestOut = Pending

(***************************************************************************)
(* SpecNorm: one normalizer call on one raw type string.                   *)
(***************************************************************************)
NormInit ==
    /\ normIn \in TypeInputs
    /\ normKind = "idle"
    /\ normOut = ""
    /\ ParseIdle
    /\ BatchIdle
    /\ MergeIdle
    /\ QueryIdle
    /\ ScriptIdle
    /\ HistoryIdle
    /\ PersistIdle
    /\ RequestIdle

MapEntityType ==
    /\ normKind = "idle"
    /\ normKind' = "entity"
    /\ normOut' = _map_entity_type(normIn)
    /\ UNCHANGED <<normIn, parseVars, batchVars, mergeVars, queryVars, scriptVars>>
    /\ UNCHANGED <<historyVars, persistVars, requestVars>>

MapRelationType ==
    /\ normKind = "idle"
    /\ normKind' = "relation"
    /\ normOut' = _map_relation_type(normIn)
    /\ UNCHANGED <<normIn, parseVars, batchVars, mergeVars, queryVars, scriptVars>>
    /\ UNCHANGED <<historyVars, persistVars, requestVars>>

NormNext == MapEntityType \/ MapRelationType

SpecNorm == NormInit /\ [][NormNext]_vars

\* every declared synonym in its three case forms, with the tag of the table
SynonymForms ==
    UNION {{<<f, EntityTypeMapping[w]>> : f \in CaseForms(w)} : w \in DeclaredEntitySynonyms}

CexC8_ReturnedTagsInEnumeration ==
    /\ normKind = "entity" => normOut \in EntityType
    /\ normKind = "relation" => normOut \in RelationType

(***************************************************************************)
(* SpecParse: one reply text, parsed as it is and parsed again inside a    *)
(* fenced code block with leading prose.  The texts are the serialized     *)
(* JSON values of nesting depth up to MaxJsonDepth, every string over      *)
(* TextAlphabet up to MaxTextLen, and a few replies written out.           *)
(***************************************************************************)
MaxJsonDepth == 4

MaxTextLen == 4

TextAlphabet == "{}[]\"1a,"

PayloadKeys == {"entities", "properties"}

RECURSIVE JsonValues(_)
JsonValues(n) ==
    IF n = 0 THEN {JNum(1), JStr("a")}
    ELSE LET V == JsonValues(n - 1)
         IN  V \cup {JArr(<<>>), JObj(<<>>)}
               \cup {JArr(<<v>>) : v \in V}
               \cup {JObj(k :> v) : k \in PayloadKeys, v \in V}

\* json.dumps of the values JsonValues builds (at most one key or item each)
RECURSIVE Dumps(_)
Dumps(v) ==
    IF v.t = "num" THEN ToString(v.n)
    ELSE IF v.t = "str" THEN "\"" \o v.s \o "\""
    ELSE IF v.t = "arr" THEN (IF v.a = <<>> THEN "[]" ELSE "[" \o Dumps(v.a[1]) \o "]")
    ELSE IF DOMAIN v.o = {} THEN "{}"
    ELSE LET k == CHOOSE k \in DOMAIN v.o : TRUE
         IN  "{\"" \o k \o "\": " \o Dumps(v.o[k]) \o "}"

WrittenReplies == {
    "null", "true", "[1, 2]", "\"abc\"", "Sorry, I cannot help with that.",
    "{\"entities\": [], \"relations\": [], \"cypher_statements\": []}",
    "{\"entities\": [{\"id\": \"e1\", \"name\": \"Pump A\", \"type\": \"pump\"}], \"relations\": []}",
    "{\"entities\": [{\"id\": \"e1\", \"name\": \"Pump A\", \"type\": \"pump\", \"properties\": {\"power\": \"5kW\"}}], \"relations\": []}"
}

ParseTexts ==
    {Dumps(v) : v \in JsonValues(MaxJsonDepth)} \cup StringsUpTo(TextAlphabet, MaxTextLen)
        \cup WrittenReplies

\* the reply of the parser-tolerance scenario: prose, then the text in a fence
Fenced(text) == "Here is the result:\n" \o Fence \o "json\n" \o text \o "\n" \o Fence

ParseInit ==
    /\ parseText \in ParseTexts
    /\ parseOut = Pending
    /\ fencedOut = Pending
    /\ NormIdle
    /\ BatchIdle
    /\ MergeIdle
    /\ QueryIdle
    /\ ScriptIdle
    /\ HistoryIdle
    /\ PersistIdle
    /\ RequestIdle

ParseRaw ==
    /\ parseOut = Pending
    /\ parseOut' = _parse_llm_response(parseText)
    /\ UNCHANGED <<parseText, fencedOut, normVars, batchVars, mergeVars, queryVars, scriptVars>>
    /\ UNCHANGED <<historyVars, persistVars, requestVars>>

ParseFenced ==
    /\ fencedOut = Pending
    /\ fencedOut' = _parse_llm_response(Fenced(parseText))
    /\ UNCHANGED <<parseText, parseOut, normVars, batchVars, mergeVars, queryVars, scriptVars>>
    /\ UNCHANGED <<historyVars, persistVars, requestVars>>

ParseNext == ParseRaw \/ ParseFenced

SpecParse == ParseInit /\ [][ParseNext]_vars

\* C5: the parser never raises, and what it returns is a mapping.
CexC5_ParserTotal ==
    /\ parseOut.exc \in {"pending", ""}
    /\ parseOut.exc = "" => parseOut.data.t = "obj"

\* C6: for a text that is itself a structured payload (json.loads gives a
\* mapping), the parser returns from the fenced reply what it returns from
\* the bare text.
CexC6_FencedEqualsBare ==
    (/\ parseOut # Pending
     /\ fencedOut # Pending
     /\ json_loads(parseText).ok
     /\ json_loads(parseText).val.t = "obj") => fencedOut = parseOut

(***************************************************************************)
(* SpecBatch: extract_knowledge_from_documents over the three requested    *)
(* documents, each task running extract_knowledge_from_document on a       *)
(* worker of the pool.  The document store holds any subset of the three;  *)
(* document saves succeed.  A task reads the content of its document,      *)
(* which may raise, and asks the model, whose transport raises, answers    *)
(* without choices, or answers with one of the reply texts.                *)
(***************************************************************************)
document_ids == <<"d1", "d2", "d3">>

Docs == {document_ids[i] : i \in DOMAIN document_ids}

MaxWorkers == 2

ReplyTexts == {
    "{\"entities\": [{\"id\": \"e1\", \"name\": \"Pump\", \"type\": \"Equipment\"}], \"relations\": [{\"from\": \"e1\", \"to\": \"e1\", \"type\": \"Causes\"}]}",
    "{\"entities\": [{\"id\": \"e1\", \"name\": \"Li\", \"type\": \"person\"}]}",
    "I could not find any entities.",
    "[]"
}

LLMOutcomes == {LLMRaise, LLMNoChoices} \cup {LLMReply(t) : t \in ReplyTexts}

NoCall == [kind |-> "uncalled", text |-> ""]

NoResult == Raised("pending")

BatchInit ==
    /\ stored \in SUBSET Docs
    /\ concurrency \in 0..MaxWorkers
    /\ batchPc = "start"
    /\ docStatus = [d \in Docs |-> IF d \in stored THEN "pending" ELSE "absent"]
    /\ taskPc = [d \in Docs |-> "none"]
    /\ llm = [d \in Docs |-> NoCall]
    /\ llmCalls = [d \in Docs |-> 0]
    /\ future = [d \in Docs |-> NoResult]
    /\ results = <<>>
    /\ failed = <<>>
    /\ batchOut = Pending
    /\ NormIdle
    /\ ParseIdle
    /\ MergeIdle
    /\ QueryIdle
    /\ ScriptIdle
    /\ HistoryIdle
    /\ PersistIdle
    /\ RequestIdle

\* lines 128-140 when max_workers is not positive: the documents are looked
\* up, the missing ones put on failed, and ThreadPoolExecutor(max_workers=
\* concurrency) raises ValueError, which leaves the method
PoolRaises ==
    /\ batchPc = "start"
    /\ concurrency <= 0
    /\ batchPc' = "raised"
    /\ failed' = SelectSeq(document_ids, LAMBDA d : d \notin stored)
    /\ batchOut' = Raised("ValueError")
    /\ UNCHANGED <<stored, concurrency, docStatus, taskPc, llm, llmCalls, future, results>>
    /\ UNCHANGED <<normVars, parseVars, mergeVars, queryVars, scriptVars>>
    /\ UNCHANGED <<historyVars, persistVars, requestVars>>

\* lines 128-145: look the documents up, report the missing ones as failed,
\* make the pool, submit one task for each document found
SubmitTasks ==
    /\ batchPc = "start"
    /\ concurrency >= 1
    /\ batchPc' = "collect"
    /\ failed' = SelectSeq(document_ids, LAMBDA d : d \notin stored)
    /\ taskPc' = [d \in Docs |-> IF d \in stored THEN "queued" ELSE "none"]
    /\ UNCHANGED <<stored, concurrency, docStatus, llm, llmCalls, future, results, batchOut>>
    /\ UNCHANGED <<normVars, parseVars, mergeVars, queryVars, scriptVars>>
    /\ UNCHANGED <<historyVars, persistVars, requestVars>>

\* a free worker takes the oldest queued task; lines 69-75: the document
\* becomes PROCESSING and is saved
TaskBegin(d) ==
    /\ taskPc[d] = "queued"
    /\ Cardinality({x \in Docs : taskPc[x] = "running"}) < concurrency
    /\ \A i, j \in DOMAIN document_ids :
           (document_ids[j] = d /\ i < j) => taskPc[document_ids[i]] # "queued"
    /\ taskPc' = [taskPc EXCEPT ![d] = "running"]
    /\ docStatus' = [docStatus EXCEPT ![d] = "processing"]
    /\ UNCHANGED <<stored, concurrency, batchPc, llm, llmCalls, future, results, failed, batchOut>>
    /\ UNCHANGED <<normVars, parseVars, mergeVars, queryVars, scriptVars>>
    /\ UNCHANGED <<historyVars, persistVars, requestVars>>

\* the task leaving the status alone when reading the content raised
TaskUnreadable_leaves_processing(d) ==
    /\ taskPc[d] = "running"
    /\ taskPc' = [taskPc EXCEPT ![d] = "done"]
    /\ future' = [future EXCEPT ![d] = Raised("ValueError")]
    /\ UNCHANGED <<stored, concurrency, batchPc, docStatus, llm, llmCalls, results, failed, batchOut>>
    /\ UNCHANGED <<normVars, parseVars, mergeVars, queryVars, scriptVars>>
    /\ UNCHANGED <<historyVars, persistVars, requestVars>>

\* the task calling the model a second time when the transport raised
TaskExtract_calls_again_after_raise(d) ==
    /\ taskPc[d] = "running"
    /\ \E first \in LLMOutcomes : \E outcome \in (IF first = LLMRaise THEN LLMOutcomes ELSE {first}) :
         \E kg \in {_extract_knowledge_with_llm(outcome, d, 0)} :
             /\ llm' = [llm EXCEPT ![d] = outcome]
             /\ llmCalls' = [llmCalls EXCEPT ![d] = @ + (IF first = LLMRaise THEN 2 ELSE 1)]
             /\ future' = [future EXCEPT ![d] = kg]
             /\ docStatus' = [docStatus EXCEPT ![d] = IF kg.exc = "" THEN "completed" ELSE "error"]
    /\ taskPc' = [taskPc EXCEPT ![d] = "done"]
    /\ UNCHANGED <<stored, concurrency, batchPc, results, failed, batchOut>>
    /\ UNCHANGED <<normVars, parseVars, mergeVars, queryVars, scriptVars>>
    /\ UNCHANGED <<historyVars, persistVars, requestVars>>

\* lines 77-99 when _read_document_content raises: ERROR, saved, re-raised
TaskUnreadable(d) ==
    /\ taskPc[d] = "running"
    /\ taskPc' = [taskPc EXCEPT ![d] = "done"]
    /\ docStatus' = [docStatus EXCEPT ![d] = "error"]
    /\ future' = [future EXCEPT ![d] = Raised("ValueError")]
    /\ UNCHANGED <<stored, concurrency, batchPc, llm, llmCalls, results, failed, batchOut>>
    /\ UNCHANGED <<normVars, parseVars, mergeVars, queryVars, scriptVars>>
    /\ UNCHANGED <<historyVars, persistVars, requestVars>>

\* lines 77-99 when the content is read: one call of the model, the graph
\* built from what it did; COMPLETED when a graph comes back, ERROR and the
\* exception re-raised otherwise
TaskExtract(d) ==
    /\ taskPc[d] = "running"
    /\ \E outcome \in LLMOutcomes : \E kg \in {_extract_knowledge_with_llm(outcome, d, 0)} :
         /\ llm' = [llm EXCEPT ![d] = outcome]
         /\ llmCalls' = [llmCalls EXCEPT ![d] = @ + 1]
         /\ future' = [future EXCEPT ![d] = kg]
         /\ docStatus' = [docStatus EXCEPT ![d] = IF kg.exc = "" THEN "completed" ELSE "error"]
    /\ taskPc' = [taskPc EXCEPT ![d] = "done"]
    /\ UNCHANGED <<stored, concurrency, batchPc, results, failed, batchOut>>
    /\ UNCHANGED <<normVars, parseVars, mergeVars, queryVars, scriptVars>>
    /\ UNCHANGED <<historyVars, persistVars, requestVars>>

\* the next completed future, its graph stored under the id of the document
\* submitted at the position of its completion
CollectResult_keyed_by_completion_order(d) ==
    /\ batchPc = "collect"
    /\ taskPc[d] = "done"
    /\ taskPc' = [taskPc EXCEPT ![d] = "collected"]
    /\ IF future[d].exc = ""
       THEN /\ results' = (document_ids[Cardinality(DOMAIN results) + 1] :> future[d].val) @@ results
            /\ failed' = failed
       ELSE /\ failed' = Append(failed, d)
            /\ results' = results
    /\ UNCHANGED <<stored, concurrency, batchPc, docStatus, llm, llmCalls, future, batchOut>>
    /\ UNCHANGED <<normVars, parseVars, mergeVars, queryVars, scriptVars>>
    /\ UNCHANGED <<historyVars, persistVars, requestVars>>

CollectResult_error_graph_fails(d) ==
    /\ batchPc = "collect"
    /\ taskPc[d] = "done"
    /\ taskPc' = [taskPc EXCEPT ![d] = "collected"]
    /\ IF future[d].exc = "" /\ "error" \notin DOMAIN future[d].val.metadata
       THEN /\ results' = (d :> future[d].val) @@ results
            /\ failed' = failed
       ELSE /\ failed' = Append(failed, d)
            /\ results' = results
    /\ UNCHANGED <<stored, concurrency, batchPc, docStatus, llm, llmCalls, future, batchOut>>
    /\ UNCHANGED <<normVars, parseVars, mergeVars, queryVars, scriptVars>>
    /\ UNCHANGED <<historyVars, persistVars, requestVars>>

\* lines 148-155: the next completed future; its graph goes to results, its
\* exception puts the document id on failed
CollectResult(d) ==
    /\ batchPc = "collect"
    /\ taskPc[d] = "done"
    /\ taskPc' = [taskPc EXCEPT ![d] = "collected"]
    /\ IF future[d].exc = ""
       THEN /\ results' = (d :> future[d].val) @@ results
            /\ failed' = failed
       ELSE /\ failed' = Append(failed, d)
            /\ results' = results
    /\ UNCHANGED <<stored, concurrency, batchPc, docStatus, llm, llmCalls, future, batchOut>>
    /\ UNCHANGED <<normVars, parseVars, mergeVars, queryVars, scriptVars>>
    /\ UNCHANGED <<historyVars, persistVars, requestVars>>

\* lines 157-158: every future is collected; the dict results is returned,
\* failed is logged by its length and dropped
BatchReturn ==
    /\ batchPc = "collect"
    /\ \A d \in Docs : taskPc[d] \in {"none", "collected"}
    /\ batchPc' = "returned"
    /\ batchOut' = Returned([t |-> "dict", o |-> results])
    /\ UNCHANGED <<stored, concurrency, docStatus, taskPc, llm, llmCalls, future, results, failed>>
    /\ UNCHANGED <<normVars, parseVars, mergeVars, queryVars, scriptVars>>
    /\ UNCHANGED <<historyVars, persistVars, requestVars>>

BatchNext ==
    \/ PoolRaises
    \/ SubmitTasks
    \/ \E d \in Docs : TaskBegin(d)
    \/ \E d \in Docs : TaskUnreadable(d)
    \/ \E d \in Docs : TaskExtract(d)
    \/ \E d \in Docs : CollectResult(d)
    \/ BatchReturn

SpecBatch == BatchInit /\ [][BatchNext]_vars

\* the ids on the failure list in what the call returned, the second item
\* of a pair (mapping, list); None when the call returned no pair
ReturnedFailures(out) ==
    IF out.t = "tuple" THEN {out.a[2][i] : i \in DOMAIN out.a[2]} ELSE None

\* C17: when the batch has returned, the mapping it returned holds exactly
\* the requested documents whose task returned a graph, and what it returned
\* has a failure list that holds every other requested document and no
\* document of the mapping.
CexC17_FailuresAreReportedToCaller ==
    batchPc = "returned" =>
        LET produced == {d \in Docs : future[d].exc = ""}
        IN  /\ batchOut.exc = ""
            /\ DOMAIN results = produced
            /\ ReturnedFailures(batchOut.val) # None
            /\ ReturnedFailures(batchOut.val) = Docs \ produced

\* concurrency clamped to the range 1..10
ClampedConcurrency == IF concurrency < 1 THEN 1 ELSE IF concurrency > 10 THEN 10 ELSE concurrency

\* C18: for every concurrency value the batch runs (the call does not
\* raise) and at no time are more tasks running than the value clamped to
\* the range 1..10.
CexC18_PoolSizeIsClamped ==
    /\ batchOut.exc \in {"pending", ""}
    /\ Cardinality({d \in Docs : taskPc[d] = "running"}) <= ClampedConcurrency

\* C24: at every time the task of a document has called the model's
\* chat_completion at most once: not at all before the content is read or
\* when reading it raised, once when the content was read, whether the call
\* returned or raised.
ThmC24_OneCompletionCallPerExtraction ==
    \A d \in Docs :
        /\ llmCalls[d] <= 1
        /\ llmCalls[d] = 1 <=> llm[d] # NoCall
        /\ (taskPc[d] \in {"done", "collected"} /\ future[d] # Raised("ValueError")) => llmCalls[d] = 1

\* a collected task whose one call raised, next to one whose one call returned
WitC24_OneCallRaisedOneReturned ==
    /\ taskPc["d1"] = "collected" /\ llm["d1"] = LLMRaise /\ llmCalls["d1"] = 1
    /\ taskPc["d2"] = "collected" /\ llm["d2"].kind = "reply" /\ llmCalls["d2"] = 1

ThmC27_StatusFollowsOutcome ==
    \A d \in Docs :
        /\ taskPc[d] \in {"none", "queued"} => docStatus[d] = (IF d \in stored THEN "pending" ELSE "absent")
        /\ taskPc[d] = "running" => docStatus[d] = "processing" /\ llm[d] = NoCall
        /\ taskPc[d] \in {"done", "collected"} =>
              /\ future[d] # NoResult
              /\ docStatus[d] = "completed" <=> future[d].exc = ""
              /\ docStatus[d] = "error" <=> future[d].exc # ""
              /\ docStatus[d] \in {"completed", "error"}

\* three finished tasks: the transport raised for d1, which is COMPLETED
\* with a degraded graph; reading d2 raised and d3's reply made the
\* extraction raise, both are ERROR
WitC27_CompletedDegradedAndTwoErrors ==
    /\ \A d \in Docs : taskPc[d] \in {"done", "collected"}
    /\ llm["d1"] = LLMRaise /\ docStatus["d1"] = "completed"
    /\ llm["d2"] = NoCall /\ docStatus["d2"] = "error"
    /\ llm["d3"].kind = "reply" /\ docStatus["d3"] = "error"

\* C2 (as amended): in a returned batch over three stored documents in which
\* the transport raised for document d2 only, d2 is in the result mapping
\* with a degraded graph (no entities, no relations, an error key in its
\* metadata) and is not on the failed list; d1 and d3 are in the mapping
\* with their graphs when their own extraction raised nothing, and on the
\* failed list otherwise.
ThmC2_RaisingDocumentIsInMapping ==
    (/\ batchPc = "returned" /\ stored = Docs
     /\ \A d \in Docs : llm[d].kind = "raise" <=> d = "d2") =>
        /\ "d2" \in DOMAIN results
        /\ results["d2"].entities = <<>> /\ results["d2"].relations = <<>>
        /\ "error" \in DOMAIN results["d2"].metadata
        /\ \A i \in DOMAIN failed : failed[i] # "d2"
        /\ \A d \in {"d1", "d3"} :
              IF future[d].exc = ""
              THEN d \in DOMAIN results /\ results[d] = future[d].val
              ELSE d \notin DOMAIN results /\ \E i \in DOMAIN failed : failed[i] = d

WitC2_BatchReturnedAfterRaiseForD2 ==
    /\ batchPc = "returned" /\ stored = Docs
    /\ \A d \in Docs : llm[d].kind = "raise" <=> d = "d2"
    /\ \A d \in {"d1", "d3"} : d \in DOMAIN results /\ results[d].entities # <<>>

\* C2 as stated: in that batch, with d1 and d3 extracted without exception,
\* the mapping holds d1 and d3, d2 is absent from it and is on the failed list.
CexC2_RaisingDocumentIsAbsentAndFailed ==
    (/\ batchPc = "returned" /\ stored = Docs
     /\ \A d \in Docs : llm[d].kind = "raise" <=> d = "d2"
     /\ future["d1"].exc = "" /\ future["d3"].exc = "") =>
        /\ {"d1", "d3"} \subseteq DOMAIN results
        /\ "d2" \notin DOMAIN results
        /\ \E i \in DOMAIN failed : failed[i] = "d2"

\* C3: a task whose transport call raised has returned, not raised, and what
\* it returned is a graph with no entities, no relations and an error key in
\* its metadata.
ThmC3_TransportFailureGivesDegradedGraph ==
    \A d \in Docs :
        (taskPc[d] \in {"done", "collected"} /\ llm[d].kind = "raise") =>
            /\ future[d].exc = ""
            /\ future[d].val.entities = <<>>
            /\ future[d].val.relations = <<>>
            /\ "error" \in DOMAIN future[d].val.metadata

WitC3_TaskDoneAfterTransportRaise ==
    \E d \in Docs : taskPc[d] = "done" /\ llm[d].kind = "raise" /\ future[d].exc = ""

\* C4: a task whose reply no parsing strategy turns into structured data
\* (json.loads rejects the text and every candidate the patterns extract)
\* has returned a graph with no entities, no relations and an error key in
\* its metadata, as after a transport failure.
CexC4_ParseFailureGivesDegradedGraph ==
    \A d \in Docs :
        LET text == llm[d].text
            braces == FindJsonObjects(text, 1)
            matches == IF braces # <<>> THEN braces ELSE FindCodeBlocks(text, 1)
        IN  (/\ taskPc[d] \in {"done", "collected"} /\ llm[d].kind = "reply"
             /\ ~json_loads(text).ok
             /\ \A i \in DOMAIN matches : ~json_loads(matches[i]).ok) =>
                /\ future[d].exc = ""
                /\ future[d].val.entities = <<>>
                /\ future[d].val.relations = <<>>
                /\ "error" \in DOMAIN future[d].val.metadata

(***************************************************************************)
(* The graphs of the merger checks.  An entity object is built from one of *)
(* the EntityShapes; its id and the texts it carries are made from its     *)
(* reference, so ids are unique.  A graph has up to MaxRelations           *)
(* relations, each between ids of its own entities or the id with number 0 *)
(* that no entity has.                                                     *)
(***************************************************************************)
MaxObjs == 3

MaxRelations == 1

EntityShapes == {
    [name |-> "Pump", type |-> "equipment", described |-> FALSE, cached |-> FALSE],
    [name |-> " PUMP ", type |-> "equipment", described |-> TRUE, cached |-> FALSE],
    [name |-> "pump", type |-> "material", described |-> TRUE, cached |-> TRUE]
}

EntityId(prefix, o) == prefix \o ToString(o)

\* the entity object with reference o made from shape
NewEntity(shape, prefix, o) ==
    [id |-> EntityId(prefix, o), name |-> shape.name, type |-> shape.type,
     description |-> IF shape.described THEN "about " \o EntityId(prefix, o) ELSE None,
     source_document |-> IF shape.described THEN "doc of " \o EntityId(prefix, o) ELSE None,
     source_table |-> None,
     properties |-> IF shape.described THEN ("k" :> EntityId(prefix, o)) ELSE <<>>,
     normalized_name |-> IF shape.cached THEN JoinSplit(lower(strip(shape.name))) ELSE None,
     updated_at |-> 0]

\* the relation lists a graph with the entity references refs may hold: a
\* relation has at least one endpoint among the entities of its graph
RelationLists(prefix, refs) ==
    LET own == {EntityId(prefix, o) : o \in refs}
        ends == {e \in (own \cup {EntityId(prefix, 0)}) \X (own \cup {EntityId(prefix, 0)}) :
                    e[1] \in own \/ e[2] \in own}
        Relation(i, e) == [id |-> prefix \o "r" \o ToString(i), type |-> "causes",
                           source |-> e[1], target |-> e[2],
                           description |-> None, source_document |-> None, source_table |-> None,
                           properties |-> <<>>, updated_at |-> 0]
    IN  UNION {{[i \in 1..n |-> Relation(i, es[i])] : es \in [1..n -> ends]} : n \in 0..MaxRelations}

\* the list of the references from, from + 1, ..., to
Refs(from, to) == [i \in 1..(to - from + 1) |-> from + i - 1]

SeqRange(s) == {s[i] : i \in DOMAIN s}

(***************************************************************************)
(* SpecMerge: one merge_with call, of base with other or of base with      *)
(* itself, with any flags.  heap0 is the heap at the time of the call.     *)
(***************************************************************************)
MergeInit ==
    /\ \E nb \in 0..MaxObjs : \E no \in 0..(MaxObjs - nb) :
         /\ \E shape \in [1..(nb + no) -> EntityShapes] :
              heap = [o \in 1..(nb + no) |-> NewEntity(shape[o], "e", o)]
         /\ \E rb \in RelationLists("e", 1..nb) : \E ro \in RelationLists("e", (nb + 1)..(nb + no)) :
              graph = [base |-> [id |-> "base", entities |-> Refs(1, nb), relations |-> rb],
                       other |-> [id |-> "other", entities |-> Refs(nb + 1, nb + no), relations |-> ro]]
    /\ heap0 = heap
    /\ clock = 1
    /\ call = <<>>
    /\ NormIdle
    /\ ParseIdle
    /\ BatchIdle
    /\ QueryIdle
    /\ ScriptIdle
    /\ HistoryIdle
    /\ PersistIdle
    /\ RequestIdle

\* merged = graph[self].merge_with(graph[other], merge_entities, merge_relations)
Merge(self, other, merge_entities, merge_relations) ==
    /\ call = <<>>
    /\ call' = [self |-> self, other |-> other,
                merge_entities |-> merge_entities, merge_relations |-> merge_relations]
    /\ heap0' = heap
    /\ \E r \in {merge_with(heap, clock, graph[self], graph[other], merge_entities, merge_relations)} :
         /\ heap' = r.heap
         /\ clock' = r.clock
         /\ graph' = [merged |-> r.merged] @@ graph
    /\ UNCHANGED <<normVars, parseVars, batchVars, queryVars, scriptVars>>
    /\ UNCHANGED <<historyVars, persistVars, requestVars>>

MergeOther == \E me \in BOOLEAN : \E mr \in BOOLEAN : Merge("base", "other", me, mr)

MergeItself == Merge("base", "base", TRUE, TRUE)

MergeNext == MergeOther \/ MergeItself

SpecMerge == MergeInit /\ [][MergeNext]_vars

\* C1: after a merge_with call every entity object of the two argument
\* graphs has the field values it had at the time of the call, and no entity
\* object of the merged graph is an object of an argument graph.
CexC1_MergeMutatesNeitherInput ==
    call # <<>> =>
        LET inputs == SeqRange(graph[call.self].entities) \cup SeqRange(graph[call.other].entities)
        IN  /\ \A o \in inputs : heap[o] = heap0[o]
            /\ SeqRange(graph["merged"].entities) \cap inputs = {}

\* C21: after a merge_with call that merges entities, every entity of base
\* that had a description at the time of the call has that description
\* still, and likewise its source_document and its source_table: a value of
\* a matching entity of other is taken only where base's entity had none.
CexC21_NonEmptyFieldsOfFoundAreKept ==
    (call # <<>> /\ call.merge_entities) =>
        \A f \in SeqRange(graph[call.self].entities) :
            /\ Truthy(heap0[f].description) => heap[f].description = heap0[f].description
            /\ Truthy(heap0[f].source_document) => heap[f].source_document = heap0[f].source_document
            /\ Truthy(heap0[f].source_table) => heap[f].source_table = heap0[f].source_table

ThmC9_SelfMergeCounts ==
    (call # <<>> /\ call.self = call.other) =>
        LET G == graph[call.self]
            M == graph["merged"]
            key(o) == <<normalize_name(heap0, o).val, heap0[o].type>>
            first(o) == G.entities[CHOOSE i \in DOMAIN G.entities :
                            /\ key(G.entities[i]) = key(o)
                            /\ \A j \in 1..(i - 1) : key(G.entities[j]) # key(o)]
            map(id) == IF \E o \in SeqRange(G.entities) : heap0[o].id = id
                       THEN heap0[first(CHOOSE o \in SeqRange(G.entities) : heap0[o].id = id)].id
                       ELSE id
            triples == {<<G.relations[i].type, G.relations[i].source, G.relations[i].target>> :
                            i \in DOMAIN G.relations}
            rewritten == {<<t[1], map(t[2]), map(t[3])>> : t \in triples}
            distinct == \A i, j \in DOMAIN G.entities :
                            key(G.entities[i]) = key(G.entities[j]) => i = j
        IN  /\ Len(M.entities) = Len(G.entities)
            /\ Len(M.relations) = Len(G.relations) + Cardinality(rewritten \ triples)
            /\ distinct => Len(M.relations) = Len(G.relations)

WitC9_SelfMergeAddsRewrittenRelation ==
    /\ call # <<>> /\ call.self = call.other
    /\ Len(graph["merged"].entities) = 2
    /\ Len(graph["merged"].relations) = Len(graph["base"].relations) + 1

\* C9 as stated: merging any graph G with itself gives a graph with the
\* entity count and the relation count of G.
CexC9_SelfMergeKeepsCounts ==
    (call # <<>> /\ call.self = call.other) =>
        /\ Len(graph["merged"].entities) = Len(graph[call.self].entities)
        /\ Len(graph["merged"].relations) = Len(graph[call.self].relations)

(***************************************************************************)
(* SpecRelations: one merge_with call of base with other, both flags true, *)
(* where other has up to MaxOtherRelations relations of two types, between *)
(* its own entities or from or to the id e0 of no entity.                  *)
(***************************************************************************)
MaxOtherRelations == 2

\* the relation lists of up to n relations of the given types whose ends are
\* ids of refs or e0, one end at least an id of refs
TypedRelationLists(refs, types, n) ==
    LET own == {EntityId("e", o) : o \in refs}
        ends == {e \in (own \cup {EntityId("e", 0)}) \X (own \cup {EntityId("e", 0)}) :
                    e[1] \in own \/ e[2] \in own}
        Relation(i, type, e) == [id |-> "or" \o ToString(i), type |-> type,
                                 source |-> e[1], target |-> e[2],
                                 description |-> None, source_document |-> None, source_table |-> None,
                                 properties |-> <<>>, updated_at |-> 0]
    IN  UNION {{[i \in 1..k |-> Relation(i, ts[i], es[i])] : ts \in [1..k -> types], es \in [1..k -> ends]} :
               k \in 0..n}

RelationsInit ==
    /\ \E nb \in 0..(MaxObjs - 1) : \E no \in 1..(MaxObjs - nb) :
         /\ \E shape \in [1..(nb + no) -> EntityShapes] :
              heap = [o \in 1..(nb + no) |-> NewEntity(shape[o], "e", o)]
         /\ \E rb \in RelationLists("e", 1..nb) :
            \E ro \in TypedRelationLists((nb + 1)..(nb + no), {"causes", "part_of"}, MaxOtherRelations) :
              graph = [base |-> [id |-> "base", entities |-> Refs(1, nb), relations |-> rb],
                       other |-> [id |-> "other", entities |-> Refs(nb + 1, nb + no), relations |-> ro]]
    /\ heap0 = heap
    /\ clock = 1
    /\ call = <<>>
    /\ NormIdle
    /\ ParseIdle
    /\ BatchIdle
    /\ QueryIdle
    /\ ScriptIdle
    /\ HistoryIdle
    /\ PersistIdle
    /\ RequestIdle

MergeBoth == Merge("base", "other", TRUE, TRUE)

RelationsNext == MergeBoth

SpecRelations == RelationsInit /\ [][RelationsNext]_vars

\* the (normalized_name, type) of the entity object o at the time of the call
KeyAtCall(o) == <<normalize_name(heap0, o).val, heap0[o].type>>

\* the id a relation end of other is rewritten to: for the id of an entity
\* of other, the id of the first entity of the merged graph with that
\* entity's (normalized_name, type); any other id is the end itself
RewrittenEnd(id) ==
    LET M == graph["merged"].entities
        named == {o \in SeqRange(graph["other"].entities) : heap0[o].id = id}
        First(o) == M[CHOOSE i \in DOMAIN M :
                        /\ KeyAtCall(M[i]) = KeyAtCall(o)
                        /\ \A j \in 1..(i - 1) : KeyAtCall(M[j]) # KeyAtCall(o)]
    IN  IF named = {} THEN id ELSE heap0[First(CHOOSE o \in named : TRUE)].id

\* the triple a relation of other is rewritten to
RewrittenTriple(r) == <<r.type, RewrittenEnd(r.source), RewrittenEnd(r.target)>>

\* the rewritten triples of the relations of other, by position
RewrittenTriples ==
    {<<i, RewrittenTriple(graph["other"].relations[i])>> : i \in DOMAIN graph["other"].relations}

\* the positions of the relations of other that merge_with is to append,
\* given their rewritten triples T: the triple is the triple of no relation
\* of base and of no earlier relation of other
AppendedPositions(T) ==
    LET B == graph["base"].relations
        base_triples == {<<B[j].type, B[j].source, B[j].target>> : j \in DOMAIN B}
    IN  {p[1] : p \in {p \in T : /\ p[2] \notin base_triples
                                 /\ \A q \in T : q[1] < p[1] => q[2] # p[2]}}

\* C22: after a merge_with call with both flags true the relations of the
\* merged graph are those of base followed, in the order of other, by one
\* relation for each relation of other whose rewritten triple (type,
\* map(source), map(target)) is the triple of no relation of base and of no
\* earlier relation of other; the appended relation has the rewritten ends
\* and the id, type, description, properties and sources of the relation of
\* other.  No two appended relations have the same triple.
ThmC22_RelationsAppendedOncePerTriple ==
    call # <<>> =>
        \A T \in {RewrittenTriples} : \A A \in {AppendedPositions(T)} :
            LET B == graph["base"].relations
                O == graph["other"].relations
                R == graph["merged"].relations
                Rank(i) == Cardinality({j \in A : j <= i})
            IN  /\ Len(R) = Len(B) + Cardinality(A)
                /\ SubSeq(R, 1, Len(B)) = B
                /\ \A p \in T : p[1] \in A =>
                      [R[Len(B) + Rank(p[1])] EXCEPT !.updated_at = 0] =
                          [O[p[1]] EXCEPT !.source = p[2][2],
                                          !.target = p[2][3],
                                          !.updated_at = 0]

\* a merge in which other has two relations from different entities that
\* are rewritten to the same triple, both entities having matched the entity
\* of base: one relation is appended
WitC22_TwoRelationsOneTriple ==
    /\ call # <<>>
    /\ Len(graph["base"].entities) = 1 /\ graph["base"].relations = <<>>
    /\ Len(graph["other"].entities) = 2 /\ Len(graph["merged"].entities) = 1
    /\ Len(graph["other"].relations) = 2
    /\ graph["other"].relations[1].source # graph["other"].relations[2].source
    /\ Len(graph["merged"].relations) = 1
    /\ graph["merged"].relations[1].source = "e1"

\* C23: after a merge_with call with both flags true, for every relation of
\* other with an end that is the id of no entity of other, the merged graph
\* has a relation of that type with that end unchanged and the other end
\* rewritten; merge_with raises nothing.
ThmC23_UnmappedEndPassesThrough ==
    call # <<>> =>
        LET O == graph["other"].relations
            R == graph["merged"].relations
            ids == {heap0[o].id : o \in SeqRange(graph["other"].entities)}
        IN  \A i \in DOMAIN O :
                /\ O[i].source \notin ids =>
                      \E j \in DOMAIN R : /\ R[j].type = O[i].type
                                          /\ R[j].source = O[i].source
                                          /\ R[j].target = RewrittenEnd(O[i].target)
                /\ O[i].target \notin ids =>
                      \E j \in DOMAIN R : /\ R[j].type = O[i].type
                                          /\ R[j].target = O[i].target
                                          /\ R[j].source = RewrittenEnd(O[i].source)

\* a merge in which a relation of other from e0, the id of no entity, to an
\* entity that matched an entity of base was appended from e0 to the entity
\* of base
WitC23_RelationFromNoEntityAppended ==
    /\ call # <<>>
    /\ Len(graph["base"].entities) = 1 /\ Len(graph["merged"].entities) = 1
    /\ graph["base"].relations = <<>>
    /\ Len(graph["other"].relations) = 1
    /\ graph["other"].relations[1].source = "e0" /\ graph["other"].relations[1].target = "e2"
    /\ Len(graph["merged"].relations) = 1
    /\ graph["merged"].relations[1].source = "e0" /\ graph["merged"].relations[1].target = "e1"

(***************************************************************************)
(* SpecAssoc: three graphs A, B and C whose ids are disjoint (the prefix   *)
(* of an id names its graph), merged as merge(merge(A, B), C) and as       *)
(* merge(A, merge(B, C)) with both flags true, the four calls in any order *)
(* that computes an argument before it is used.                            *)
(***************************************************************************)
AssocInit ==
    /\ \E na \in 0..MaxObjs : \E nb \in 0..(MaxObjs - na) : \E nc \in 0..(MaxObjs - na - nb) :
         LET prefix(o) == IF o <= na THEN "a" ELSE IF o <= na + nb THEN "b" ELSE "c"
         IN  /\ \E shape \in [1..(na + nb + nc) -> EntityShapes] :
                  heap = [o \in 1..(na + nb + nc) |-> NewEntity(shape[o], prefix(o), o)]
             /\ \E ra \in RelationLists("a", 1..na) :
                \E rb \in RelationLists("b", (na + 1)..(na + nb)) :
                \E rc \in RelationLists("c", (na + nb + 1)..(na + nb + nc)) :
                  graph = [A |-> [id |-> "A", entities |-> Refs(1, na), relations |-> ra],
                           B |-> [id |-> "B", entities |-> Refs(na + 1, na + nb), relations |-> rb],
                           C |-> [id |-> "C", entities |-> Refs(na + nb + 1, na + nb + nc),
                                  relations |-> rc]]
    /\ heap0 = heap
    /\ clock = 1
    /\ call = <<>>
    /\ NormIdle
    /\ ParseIdle
    /\ BatchIdle
    /\ QueryIdle
    /\ ScriptIdle
    /\ HistoryIdle
    /\ PersistIdle
    /\ RequestIdle

\* graph[result] = graph[self].merge_with(graph[other])
AssocMerge(result, self, other) ==
    /\ result \notin DOMAIN graph
    /\ {self, other} \subseteq DOMAIN graph
    /\ call' = [self |-> self, other |-> other, merge_entities |-> TRUE, merge_relations |-> TRUE]
    /\ heap0' = heap
    /\ \E r \in {merge_with(heap, clock, graph[self], graph[other], TRUE, TRUE)} :
         /\ heap' = r.heap
         /\ clock' = r.clock
         /\ graph' = (result :> r.merged) @@ graph
    /\ UNCHANGED <<normVars, parseVars, batchVars, queryVars, scriptVars>>
    /\ UNCHANGED <<historyVars, persistVars, requestVars>>

AssocNext ==
    \/ AssocMerge("AB", "A", "B")
    \/ AssocMerge("AB_C", "AB", "C")
    \/ AssocMerge("BC", "B", "C")
    \/ AssocMerge("A_BC", "A", "BC")

SpecAssoc == AssocInit /\ [][AssocNext]_vars

\* C10: for graphs A, B, C with disjoint ids, merge(merge(A, B), C) and
\* merge(A, merge(B, C)) have the same set of entity keys
\* (normalized_name, type) and the same set of relation triples
\* (type, source, target).
ThmC10_MergeOrderIndependent ==
    ({"AB_C", "A_BC"} \subseteq DOMAIN graph) =>
        LET keys(g) == {<<normalize_name(heap, o).val, heap[o].type>> : o \in SeqRange(g.entities)}
            triples(g) == {<<g.relations[i].type, g.relations[i].source, g.relations[i].target>> :
                               i \in DOMAIN g.relations}
        IN  /\ keys(graph["AB_C"]) = keys(graph["A_BC"])
            /\ triples(graph["AB_C"]) = triples(graph["A_BC"])

WitC10_BothOrdersMergedAndRewrote ==
    /\ {"AB_C", "A_BC"} \subseteq DOMAIN graph
    /\ \A g \in {"A", "B", "C"} : graph[g].entities # <<>>
    /\ Len(graph["AB_C"].entities) = 1
    /\ \E i \in DOMAIN graph["A_BC"].relations :
          /\ graph["A_BC"].relations[i].id = "cr1"
          /\ graph["A_BC"].relations[i].source = "a1"

(***************************************************************************)
(* SpecQuery: one _execute_query_on_graph call on a graph held by value.   *)
(* The graph has up to MaxObjs entities, each an equipment or a component, *)
(* and the relation lists of the merger checks.  The query texts are the   *)
(* ones the three find_* methods build and hand-written ones; each comes   *)
(* with the shape of section 4.6 it has ("none" when it has none) and the  *)
(* type tag it names.                                                      *)
(***************************************************************************)
QueryShapes == {
    [name |-> "Pump", type |-> "equipment", described |-> FALSE, cached |-> FALSE],
    [name |-> "Seal", type |-> "component", described |-> FALSE, cached |-> FALSE]
}

\* the graphs by value with up to MaxObjs entities made from shapes
GraphsOf(shapes) ==
    UNION {{[id |-> "kg", name |-> "graph", entities |-> [o \in 1..n |-> NewEntity(shape[o], "e", o)],
             relations |-> relations, metadata |-> <<>>] :
                shape \in [1..n -> shapes], relations \in RelationLists("e", 1..n)} :
           n \in 0..MaxObjs}

\* the query text find_entities_by_type builds (line 154)
EntitiesByTypeQuery(entity_type, cap) ==
    "MATCH (e:" \o entity_type \o ") RETURN e LIMIT " \o ToString(cap)

\* the query text find_relations_by_type builds (line 174)
RelationsByTypeQuery(relation_type, cap) ==
    "MATCH ()-[r:" \o relation_type \o "]->() RETURN r LIMIT " \o ToString(cap)

\* the query text find_path_between_entities builds (lines 197-202)
PathQuery(source_id, target_id, max_depth) ==
    "\n        MATCH path = shortestPath(\n            (e1 {id: '" \o source_id
        \o "'})-[*1.." \o ToString(max_depth) \o "]-(e2 {id: '" \o target_id
        \o "'})\n        )\n        RETURN path\n        "

QueryCases(cap) ==
    {[text |-> "MATCH (n:equipment) RETURN n", shape |-> "entity", type |-> "equipment"],
     [text |-> "Match (n:component)\nReturn n", shape |-> "entity", type |-> "component"],
     [text |-> "MATCH (:material) RETURN 1", shape |-> "entity", type |-> "material"],
     [text |-> "MATCH ()-[:causes]->() RETURN 1", shape |-> "relation", type |-> "causes"],
     [text |-> "MATCH (a)-[r:part_of]->(b) RETURN r", shape |-> "relation", type |-> "part_of"],
     [text |-> "MATCH (n) RETURN n", shape |-> "none", type |-> None],
     [text |-> "RETURN 1", shape |-> "none", type |-> None],
     [text |-> "There is no path to report.", shape |-> "none", type |-> None],
     [text |-> "", shape |-> "none", type |-> None]}
    \cup {[text |-> EntitiesByTypeQuery(t, cap), shape |-> "entity", type |-> t] :
            t \in {"equipment", "component"}}
    \cup {[text |-> RelationsByTypeQuery("causes", cap), shape |-> "relation", type |-> "causes"]}
    \cup {[text |-> PathQuery(a, b, 3), shape |-> "path", type |-> None] :
            a \in {"e1"}, b \in {"e2", "e9"}}

QueryInit ==
    /\ queryKg \in GraphsOf(QueryShapes)
    /\ max_results \in -1..MaxObjs
    /\ cypher_query \in {c.text : c \in QueryCases(max_results)}
    /\ queryOut = Pending
    /\ loaded = Pending
    /\ query_history = <<>>
    /\ query_text = ""
    /\ cypherReply = ""
    /\ nlCalls = 0
    /\ nlOut = Pending
    /\ NormIdle
    /\ ParseIdle
    /\ BatchIdle
    /\ MergeIdle
    /\ ScriptIdle
    /\ HistoryIdle
    /\ PersistIdle
    /\ RequestIdle

ExecuteQueryOnGraph ==
    /\ queryOut = Pending
    /\ queryOut' = Returned(_execute_query_on_graph(queryKg, cypher_query, max_results))
    /\ UNCHANGED <<queryKg, cypher_query, max_results, loaded, query_history, query_text, cypherReply,
                   nlCalls, nlOut>>
    /\ UNCHANGED <<normVars, parseVars, batchVars, mergeVars, scriptVars>>
    /\ UNCHANGED <<historyVars, persistVars, requestVars>>

QueryNext == ExecuteQueryOnGraph

SpecQuery == QueryInit /\ [][QueryNext]_vars

(***************************************************************************)
(* SpecHistory: a QueryService after construction, asked one question     *)
(* up to MaxQueries times.  Each time the transport of the model raises,   *)
(* the model answers without choices, or it answers with cypherReply.  The *)
(* data directory holds the graph files StoredGraphFiles.                  *)
(***************************************************************************)
MaxQueries == 102

QueryTexts == {"which parts cause leaks"}

CypherReplies == {
    "MATCH (n:equipment) RETURN n",
    "Here is the query:\nmatch (a)-[:causes]->(b) return a\nIt lists the causes.",
    "  I cannot translate this. "
}

StoredGraphFiles == <<"{\"id\": \"kg1\", \"entities\": [], \"relations\": [], \"metadata\": {}}">>

HistoryInit ==
    /\ queryKg = <<>>
    /\ cypher_query = ""
    /\ max_results = 10
    /\ queryOut = Pending
    /\ loaded = Pending
    /\ query_history = <<>>
    /\ query_text \in QueryTexts
    /\ cypherReply \in CypherReplies
    /\ nlCalls = 0
    /\ nlOut = Pending
    /\ NormIdle
    /\ ParseIdle
    /\ BatchIdle
    /\ MergeIdle
    /\ ScriptIdle
    /\ HistoryIdle
    /\ PersistIdle
    /\ RequestIdle

\* query_by_natural_language raises what _natural_language_to_cypher raises:
\* the exception of chat_completion (line 241), or the KeyError of
\* response["choices"] (line 251); nothing is saved
TranslationRaises(exception) ==
    /\ nlOut' = Raised(exception)
    /\ UNCHANGED <<cypher_query, query_history, clock>>

\* query_by_natural_language on an answer with text content (lines 72-87)
TranslationReturns(generated, found) ==
    /\ cypher_query' = generated
    /\ query_history' = _save_query_history(query_history, query_text, generated, found, clock)
    /\ clock' = clock + 1
    /\ nlOut' = Returned([query_text |-> query_text, cypher_query |-> generated, count |-> Len(found)])

QueryByNaturalLanguage ==
    /\ nlCalls < MaxQueries
    /\ nlCalls' = nlCalls + 1
    /\ \E outcome \in {LLMRaise, LLMNoChoices, LLMReply(cypherReply)} :
         IF outcome.kind = "raise" THEN TranslationRaises("Exception")
         ELSE IF outcome.kind = "no_choices" THEN TranslationRaises("KeyError")
         ELSE \E generated \in {_extract_cypher_from_response(outcome.text)} :
                \E found \in {_execute_cypher_query(StoredGraphFiles, generated, max_results)} :
                    TranslationReturns(generated, found)
    /\ UNCHANGED <<queryKg, max_results, queryOut, loaded, query_text, cypherReply>>
    /\ UNCHANGED <<heap, heap0, graph, call>>
    /\ UNCHANGED <<normVars, parseVars, batchVars, scriptVars>>
    /\ UNCHANGED <<historyVars, persistVars, requestVars>>

HistoryNext == QueryByNaturalLanguage

SpecHistory == HistoryInit /\ [][HistoryNext]_vars

\* C15: after any number of query_by_natural_language calls on a new
\* service, those that raised included, the log has one entry for each call
\* up to HistoryCap entries and never more; the entries are in the order of
\* the calls and are the most recent ones.
CexC15_EveryExecutionIsLogged ==
    /\ Len(query_history) = (IF nlCalls < HistoryCap THEN nlCalls ELSE HistoryCap)
    /\ \A i \in DOMAIN query_history :
          /\ query_history[i].query_text = query_text
          /\ query_history[i].timestamp = clock - Len(query_history) + i - 1

(***************************************************************************)
(* SpecGetHistory: a QueryService after construction, asked one question   *)
(* up to MaxAsked times, then get_query_history(limit) once, for limit     *)
(* from 0 to MaxLimit.                                                     *)
(***************************************************************************)
MaxAsked == 3

MaxLimit == 4

\* the Python slice s[k:]
SliceFrom(s, k) ==
    IF k < 0 THEN SubSeq(s, (IF Len(s) + k > 0 THEN Len(s) + k ELSE 0) + 1, Len(s))
    ELSE SubSeq(s, (IF k < Len(s) THEN k ELSE Len(s)) + 1, Len(s))

\* QueryService.get_query_history: self.query_history[-limit:]
get_query_history(history, n) == SliceFrom(history, 0 - n)

GetHistoryInit ==
    /\ queryKg = <<>>
    /\ cypher_query = ""
    /\ max_results = 10
    /\ queryOut = Pending
    /\ loaded = Pending
    /\ query_history = <<>>
    /\ query_text \in QueryTexts
    /\ cypherReply \in CypherReplies
    /\ nlCalls = 0
    /\ nlOut = Pending
    /\ limit \in 0..MaxLimit
    /\ historyOut = Pending
    /\ NormIdle
    /\ ParseIdle
    /\ BatchIdle
    /\ MergeIdle
    /\ ScriptIdle
    /\ PersistIdle
    /\ RequestIdle

\* one more question before the history is read
AskBeforeRead ==
    /\ nlCalls < MaxAsked
    /\ historyOut = Pending
    /\ QueryByNaturalLanguage

GetQueryHistory ==
    /\ historyOut = Pending
    /\ historyOut' = Returned(get_query_history(query_history, limit))
    /\ UNCHANGED <<limit, normVars, parseVars, batchVars, mergeVars, queryVars, scriptVars>>
    /\ UNCHANGED <<persistVars, requestVars>>

GetHistoryNext == AskBeforeRead \/ GetQueryHistory

SpecGetHistory == GetHistoryInit /\ [][GetHistoryNext]_vars

\* C28: what get_query_history(limit) returned, for limit >= 0, has at most
\* limit entries, and they are the last entries of the history in the order
\* of the history; for limit = 0 it has none.
CexC28_AtMostLimitMostRecentEntries ==
    historyOut # Pending =>
        LET n == Len(query_history)
            k == IF limit < n THEN limit ELSE n
        IN  /\ Len(historyOut.val) <= limit
            /\ historyOut.val = SubSeq(query_history, n - k + 1, n)

(***************************************************************************)
(* SpecScript: one write_cypher call on a script of up to MaxLines lines,  *)
(* each one of ScriptLines; every session.run call succeeds or raises an   *)
(* exception of the driver.                                                *)
(***************************************************************************)
MaxLines == 3

ScriptLines == {"CREATE (a);", "MERGE (b)", "-- note", "", "  RETURN 1;  ", "CREATE (c); CREATE (d);"}

RECURSIVE Scripts(_)
Scripts(n) ==
    IF n = 0 THEN {""}
    ELSE ScriptLines \cup {script \o "\n" \o line : script \in Scripts(n - 1), line \in ScriptLines}

ScriptInit ==
    /\ cypher \in Scripts(MaxLines)
    /\ writePc = "idle"
    /\ statements = <<>>
    /\ session = <<>>
    /\ writeLog = <<>>
    /\ writeOut = Pending
    /\ NormIdle
    /\ ParseIdle
    /\ BatchIdle
    /\ MergeIdle
    /\ QueryIdle
    /\ HistoryIdle
    /\ PersistIdle
    /\ RequestIdle

\* lines 38-43: a blank script returns 0; any other is split
WriteCypher ==
    /\ writePc = "idle"
    /\ IF strip(cypher) = ""
       THEN /\ writePc' = "returned"
            /\ writeOut' = Returned(0)
            /\ UNCHANGED statements
       ELSE /\ writePc' = "running"
            /\ statements' = _split_cypher_statements(cypher)
            /\ UNCHANGED writeOut
    /\ UNCHANGED <<cypher, session, writeLog>>
    /\ UNCHANGED <<normVars, parseVars, batchVars, mergeVars, queryVars>>
    /\ UNCHANGED <<historyVars, persistVars, requestVars>>

SessionRun_continues_after_failure ==
    /\ writePc = "running"
    /\ Len(session) < Len(statements)
    /\ \E ok \in BOOLEAN :
         session' = Append(session, [statement |-> statements[Len(session) + 1], ok |-> ok])
    /\ UNCHANGED <<cypher, writePc, statements, writeLog, writeOut>>
    /\ UNCHANGED <<normVars, parseVars, batchVars, mergeVars, queryVars>>
    /\ UNCHANGED <<historyVars, persistVars, requestVars>>

\* lines 46-54: session.run on the next statement; when it raises, the
\* index and the text of the statement are logged as errors and the
\* exception leaves write_cypher
SessionRun ==
    /\ writePc = "running"
    /\ Len(session) < Len(statements)
    /\ \E statement \in {statements[Len(session) + 1]} :
         \/ /\ session' = Append(session, [statement |-> statement, ok |-> TRUE])
            /\ UNCHANGED <<writePc, writeLog, writeOut>>
         \/ \E e \in DriverErrors(statement) :
              /\ session' = Append(session, [statement |-> statement, ok |-> FALSE])
              /\ writeLog' = Append(writeLog, [index |-> Len(session) + 1,
                                                 total |-> Len(statements),
                                                 statement |-> statement])
              /\ writeOut' = e
              /\ writePc' = "raised"
    /\ UNCHANGED <<cypher, statements>>
    /\ UNCHANGED <<normVars, parseVars, batchVars, mergeVars, queryVars>>
    /\ UNCHANGED <<historyVars, persistVars, requestVars>>

\* lines 56-57: every statement has run; the number of statements is returned
WriteReturn ==
    /\ writePc = "running"
    /\ Len(session) = Len(statements)
    /\ writePc' = "returned"
    /\ writeOut' = Returned(Len(statements))
    /\ UNCHANGED <<cypher, statements, session, writeLog>>
    /\ UNCHANGED <<normVars, parseVars, batchVars, mergeVars, queryVars>>
    /\ UNCHANGED <<historyVars, persistVars, requestVars>>

ScriptNext == WriteCypher \/ SessionRun \/ WriteReturn

SpecScript == ScriptInit /\ [][ScriptNext]_vars

(***************************************************************************)
(* SpecMergeIds: one merge_with call of base with other, where each graph  *)
(* numbers its own entities and relations from 1, as the graphs extracted  *)
(* from two documents do: the ids of a graph are pairwise distinct, and an *)
(* id of other may be an id of base.                                       *)
(***************************************************************************)
MergeIdsInit ==
    /\ \E nb \in 0..MaxObjs : \E no \in 0..(MaxObjs - nb) :
         /\ \E shape \in [1..(nb + no) -> EntityShapes] :
              heap = [o \in 1..(nb + no) |->
                         NewEntity(shape[o], "e", IF o <= nb THEN o ELSE o - nb)]
         /\ \E rb \in RelationLists("e", 1..nb) : \E ro \in RelationLists("e", 1..no) :
              graph = [base |-> [id |-> "base", entities |-> Refs(1, nb), relations |-> rb],
                       other |-> [id |-> "other", entities |-> Refs(nb + 1, nb + no), relations |-> ro]]
    /\ heap0 = heap
    /\ clock = 1
    /\ call = <<>>
    /\ NormIdle
    /\ ParseIdle
    /\ BatchIdle
    /\ QueryIdle
    /\ ScriptIdle
    /\ HistoryIdle
    /\ PersistIdle
    /\ RequestIdle

MergeIdsNext == MergeOther

SpecMergeIds == MergeIdsInit /\ [][MergeIdsNext]_vars

\* C20: when the entity ids of base are pairwise distinct, and so are its
\* relation ids and those of other, the graph merge_with returns with both
\* flags true has pairwise distinct entity ids and pairwise distinct
\* relation ids.
CexC20_MergeKeepsIdsUnique ==
    LET EntityIds(g) == [i \in DOMAIN g.entities |-> heap[g.entities[i]].id]
        RelationIds(g) == [i \in DOMAIN g.relations |-> g.relations[i].id]
        Distinct(ids) == \A i, j \in DOMAIN ids : ids[i] = ids[j] => i = j
    IN  (/\ call # <<>> /\ call.merge_entities /\ call.merge_relations
         /\ Distinct(EntityIds(graph["base"])) /\ Distinct(RelationIds(graph["base"]))
         /\ Distinct(EntityIds(graph["other"])) /\ Distinct(RelationIds(graph["other"]))) =>
            /\ Distinct(EntityIds(graph["merged"]))
            /\ Distinct(RelationIds(graph["merged"]))

\* s without its whitespace characters
RECURSIVE Squeeze(_)
Squeeze(s) ==
    IF s = "" THEN ""
    ELSE (IF Ch(s, 1) \in Whitespace THEN "" ELSE Ch(s, 1)) \o Squeeze(Rest(s))

\* the texts of a sequence, one after the other
RECURSIVE Joined(_)
Joined(texts) == IF texts = <<>> THEN "" ELSE texts[1] \o Joined(Tail(texts))

\* the lines of the script that are not comment lines
CodeLines == SelectSeq(SplitLines(cypher), LAMBDA line : ~IsLiteral(strip(line), 1, "--"))

MetadataCases == {<<>>, ("source" :> JStr("d1"))}

DictInit ==
    /\ queryKg \in {[g EXCEPT !.metadata = m] : g \in GraphsOf(EntityShapes), m \in MetadataCases}
    /\ cypher_query = ""
    /\ max_results = 0
    /\ queryOut = Pending
    /\ loaded = Pending
    /\ query_history = <<>>
    /\ query_text = ""
    /\ cypherReply = ""
    /\ nlCalls = 0
    /\ nlOut = Pending
    /\ heap = <<>>
    /\ heap0 = <<>>
    /\ clock = 1
    /\ graph = <<>>
    /\ call = <<>>
    /\ NormIdle
    /\ ParseIdle
    /\ BatchIdle
    /\ ScriptIdle
    /\ HistoryIdle
    /\ PersistIdle
    /\ RequestIdle

\* queryKg.to_dict()
ToDict ==
    /\ queryOut = Pending
    /\ queryOut' = Returned(KnowledgeGraph_to_dict(queryKg))
    /\ UNCHANGED <<queryKg, cypher_query, max_results, loaded, query_history, query_text, cypherReply,
                   nlCalls, nlOut>>
    /\ UNCHANGED <<normVars, parseVars, batchVars, mergeVars, scriptVars>>
    /\ UNCHANGED <<historyVars, persistVars, requestVars>>

\* the mapping after from_dict returned: lines 246 and 249 have replaced the
\* two lists by the lists of model instances
InstancesIn(data, g) ==
    [data EXCEPT !.o["entities"] = JArr([i \in DOMAIN g.entities |-> [t |-> "model", m |-> g.entities[i]]]),
                 !.o["relations"] = JArr([i \in DOMAIN g.relations |-> [t |-> "model", m |-> g.relations[i]]])]

\* KnowledgeGraph.from_dict on the mapping to_dict returned
FromDict ==
    /\ queryOut # Pending
    /\ loaded = Pending
    /\ \E r \in {KnowledgeGraph_from_dict(queryOut.val, clock)} :
         /\ loaded' = r
         /\ queryOut' = IF r.exc = "" THEN Returned(InstancesIn(queryOut.val, r.val)) ELSE queryOut
    /\ UNCHANGED <<queryKg, cypher_query, max_results, query_history, query_text, cypherReply,
                   nlCalls, nlOut>>
    /\ UNCHANGED <<normVars, parseVars, batchVars, mergeVars, scriptVars>>
    /\ UNCHANGED <<historyVars, persistVars, requestVars>>

DictNext == ToDict \/ FromDict

SpecDict == DictInit /\ [][DictNext]_vars

\* C16: what from_dict makes of the mapping to_dict returned for a graph is
\* a graph equal to it: the same id, name and metadata, and the same
\* entities and relations, field by field and in the same order.
ThmC16_RoundTrip == loaded # Pending => loaded = Returned(queryKg)

\* a round trip of a graph with two entities, one of them with a cached
\* normalized name and properties, a relation and metadata
WitC16_RoundTripOfFullGraph ==
    /\ loaded = Returned(queryKg)
    /\ Len(queryKg.entities) = 2
    /\ queryKg.entities[2].normalized_name = "pump"
    /\ queryKg.entities[2].properties # <<>>
    /\ Len(queryKg.relations) = 1
    /\ queryKg.metadata # <<>>

\* the case of QueryCases the query text of the state is
QueryCase == CHOOSE c \in QueryCases(max_results) : c.text = cypher_query

\* the first max_results items of rows, all of them when there are fewer
Truncated(rows) == SubSeq(rows, 1, IF max_results < Len(rows) THEN max_results ELSE Len(rows))

\* C11: for a query naming a single typed node and no relation arrow, and a
\* result cap that is not negative, the call returns one row for each entity
\* of the graph whose type is the named type, in the order the entities have
\* in the graph, cut after the first max_results rows; each row is the
\* serialized entity.
ThmC11_EntityTypeMatch ==
    (queryOut # Pending /\ QueryCase.shape = "entity" /\ max_results >= 0) =>
        LET matching == SelectSeq(queryKg.entities, LAMBDA e : e.type = QueryCase.type)
        IN  /\ queryOut.exc = ""
            /\ queryOut.val = Truncated([i \in DOMAIN matching |-> Entity_to_dict(matching[i])])

\* the scenario of the query engine: entities e1 (equipment) and e2
\* (component), no relations, MATCH (n:equipment) RETURN n; one row, for e1
WitC11_OneRowForE1 ==
    /\ Len(queryKg.entities) = 2
    /\ queryKg.entities[1].id = "e1" /\ queryKg.entities[1].type = "equipment"
    /\ queryKg.entities[2].id = "e2" /\ queryKg.entities[2].type = "component"
    /\ queryKg.relations = <<>>
    /\ cypher_query = "MATCH (n:equipment) RETURN n"
    /\ max_results = MaxObjs
    /\ queryOut = Returned(<<Entity_to_dict(queryKg.entities[1])>>)

\* C12: for a query containing a directed relation arrow annotated with a
\* relation type (the text find_relations_by_type builds among them), and a
\* result cap that is not negative, the call returns one row for each
\* relation of the graph with that type, in the order the relations have in
\* the graph, cut after the first max_results rows.
CexC12_RelationTypeMatch ==
    (queryOut # Pending /\ QueryCase.shape = "relation" /\ max_results >= 0) =>
        LET matching == SelectSeq(queryKg.relations, LAMBDA r : r.type = QueryCase.type)
        IN  /\ queryOut.exc = ""
            /\ queryOut.val = Truncated([i \in DOMAIN matching |-> Relation_to_dict(matching[i])])

\* C13: for the text find_path_between_entities builds, whatever the two
\* identifiers, and a result cap that is not negative, the call returns one
\* row for each relation of the graph, cut after the first max_results rows.
CexC13_PathPatternReturnsEveryRelation ==
    (queryOut # Pending /\ QueryCase.shape = "path" /\ max_results >= 0) =>
        /\ queryOut.exc = ""
        /\ queryOut.val = Truncated([i \in DOMAIN queryKg.relations |->
                                        Relation_to_dict(queryKg.relations[i])])

\* C14: for a query text that has none of the three shapes the call returns
\* the empty sequence and raises nothing.
CexC14_UnsupportedQueryGivesNoRows ==
    (queryOut # Pending /\ QueryCase.shape = "none") => queryOut = Returned(<<>>)

(***************************************************************************)
(* SpecPersist: a KnowledgeService on an empty data directory.  One graph  *)
(* is saved, the save succeeding; then load_knowledge_graph on its id,     *)
(* merge_knowledge_graphs on a list that holds its id, and the query       *)
(* engine's read of the directory, each once and in any order.  The graphs *)
(* are those of the round-trip check.                                      *)
(***************************************************************************)
\* kg.json(): the JSON text of the graph, fields in declaration order; a
\* datetime is written as the text of its clock reading
KnowledgeGraph_json(g) ==
    LET Quoted(s) == "\"" \o s \o "\""
        Optional(v) == IF v = None THEN "null" ELSE Quoted(v)
        Properties(p) ==
            IF DOMAIN p = {} THEN "{}"
            ELSE LET k == CHOOSE k \in DOMAIN p : TRUE IN "{" \o Quoted(k) \o ": " \o Quoted(p[k]) \o "}"
        Sources(x) ==
            ", \"description\": " \o Optional(x.description)
                \o ", \"source_document\": " \o Optional(x.source_document)
                \o ", \"source_table\": " \o Optional(x.source_table)
                \o ", \"updated_at\": " \o Quoted("t" \o ToString(x.updated_at))
                \o ", \"properties\": " \o Properties(x.properties)
        EntityText(e) ==
            "{\"id\": " \o Quoted(e.id) \o ", \"name\": " \o Quoted(e.name)
                \o ", \"type\": " \o Quoted(e.type) \o Sources(e)
                \o ", \"normalized_name\": " \o Optional(e.normalized_name) \o "}"
        RelationText(r) ==
            "{\"id\": " \o Quoted(r.id) \o ", \"type\": " \o Quoted(r.type)
                \o ", \"source\": " \o Quoted(r.source) \o ", \"target\": " \o Quoted(r.target)
                \o Sources(r) \o "}"
        RECURSIVE Items(_, _)
        Items(texts, i) ==
            IF i > Len(texts) THEN ""
            ELSE (IF i > 1 THEN ", " ELSE "") \o texts[i] \o Items(texts, i + 1)
    IN  "{\"id\": " \o Quoted(g.id) \o ", \"name\": " \o Quoted(g.name)
            \o ", \"entities\": [" \o Items([i \in DOMAIN g.entities |-> EntityText(g.entities[i])], 1)
            \o "], \"relations\": [" \o Items([i \in DOMAIN g.relations |-> RelationText(g.relations[i])], 1)
            \o "], \"metadata\": " \o Dumps(JObj(g.metadata)) \o "}"

\* the name of the file of the graph kg_id (lines 167, 188)
KgFileName(kg_id) == "kg_" \o kg_id \o ".json"

\* KnowledgeService.save_knowledge_graph when the write succeeds: the
\* directory after the call
save_knowledge_graph(dir, g) ==
    LET file == [name |-> KgFileName(g.id), text |-> KnowledgeGraph_json(g)]
    IN  IF \E i \in DOMAIN dir : dir[i].name = file.name
        THEN [i \in DOMAIN dir |-> IF dir[i].name = file.name THEN file ELSE dir[i]]
        ELSE Append(dir, file)

\* KnowledgeService.load_knowledge_graph at time now: the graph, or JNull
\* for None.  Line 196 hands the text it read, a str, to from_dict; what
\* from_dict raises is caught on line 197
load_knowledge_graph(dir, kg_id, now) ==
    LET found == {i \in DOMAIN dir : dir[i].name = KgFileName(kg_id)}
        Caught(r) == IF r.exc # "" THEN JNull ELSE r.val
    IN  IF found = {} THEN JNull
        ELSE Caught(KnowledgeGraph_from_dict(JStr(dir[CHOOSE i \in found : TRUE].text), now))

\* a.merge_with(b, True, True) on graphs held by value, at time now
MergeByValue(a, b, now) ==
    LET FromHeap(r) ==
            [a EXCEPT !.entities = [i \in DOMAIN r.merged.entities |-> r.heap[r.merged.entities[i]]],
                      !.relations = r.merged.relations]
    IN  FromHeap(merge_with(a.entities \o b.entities, now,
                            [id |-> a.id, entities |-> Refs(1, Len(a.entities)), relations |-> a.relations],
                            [id |-> b.id,
                             entities |-> Refs(Len(a.entities) + 1, Len(a.entities) + Len(b.entities)),
                             relations |-> b.relations],
                            TRUE, TRUE))

\* KnowledgeService.merge_knowledge_graphs with both flags true, at time
\* now: what it returns (JNull for None) and the directory after the call.
\* The id of the merged graph leaves out its int(time.time()) suffix
merge_knowledge_graphs(dir, ids, now) ==
    LET RECURSIVE MergeFrom(_, _, _)
        MergeFrom(merged, kgs, i) ==
            IF i > Len(kgs) THEN merged ELSE MergeFrom(MergeByValue(merged, kgs[i], now), kgs, i + 1)
        Renamed(merged, n) == [merged EXCEPT !.id = "merged", !.name = "merged " \o ToString(n)]
        Saved(merged) == [val |-> merged, dir |-> save_knowledge_graph(dir, merged)]
        Merged(kgs) ==
            IF kgs = <<>> THEN [val |-> JNull, dir |-> dir]
            ELSE Saved(Renamed(MergeFrom(kgs[1], kgs, 2), Len(kgs)))
    IN  Merged(SelectSeq([i \in DOMAIN ids |-> load_knowledge_graph(dir, ids[i], now)],
                         LAMBDA loadedKg : loadedKg # JNull))

PersistInit ==
    /\ savedKg \in {[g EXCEPT !.metadata = m] : g \in GraphsOf(EntityShapes), m \in MetadataCases}
    /\ data_dir = <<>>
    /\ loadOut = Pending
    /\ kg_ids \in {<<savedKg.id>>, <<"kg0", savedKg.id>>, <<savedKg.id, savedKg.id>>}
    /\ mergedOut = Pending
    /\ readOut = Pending
    /\ NormIdle
    /\ ParseIdle
    /\ BatchIdle
    /\ MergeIdle
    /\ QueryIdle
    /\ ScriptIdle
    /\ HistoryIdle
    /\ RequestIdle

SaveKnowledgeGraph ==
    /\ data_dir = <<>>
    /\ data_dir' = save_knowledge_graph(data_dir, savedKg)
    /\ UNCHANGED <<savedKg, loadOut, kg_ids, mergedOut, readOut>>
    /\ UNCHANGED <<normVars, parseVars, batchVars, mergeVars, queryVars, scriptVars>>
    /\ UNCHANGED <<historyVars, requestVars>>

LoadKnowledgeGraph ==
    /\ data_dir # <<>>
    /\ loadOut = Pending
    /\ loadOut' = Returned(load_knowledge_graph(data_dir, savedKg.id, 1))
    /\ UNCHANGED <<savedKg, data_dir, kg_ids, mergedOut, readOut>>
    /\ UNCHANGED <<normVars, parseVars, batchVars, mergeVars, queryVars, scriptVars>>
    /\ UNCHANGED <<historyVars, requestVars>>

MergeKnowledgeGraphs ==
    /\ data_dir # <<>>
    /\ mergedOut = Pending
    /\ \E r \in {merge_knowledge_graphs(data_dir, kg_ids, 1)} :
         /\ mergedOut' = Returned(r.val)
         /\ data_dir' = r.dir
    /\ UNCHANGED <<savedKg, loadOut, kg_ids, readOut>>
    /\ UNCHANGED <<normVars, parseVars, batchVars, mergeVars, queryVars, scriptVars>>
    /\ UNCHANGED <<historyVars, requestVars>>

\* the query engine asked for the entities of one type over every graph
\* file of the directory
QueryEngineRead ==
    /\ data_dir # <<>>
    /\ readOut = Pending
    /\ readOut' = Returned(_execute_cypher_query([i \in DOMAIN data_dir |-> data_dir[i].text],
                                                 "MATCH (n:equipment) RETURN n", 10))
    /\ UNCHANGED <<savedKg, data_dir, loadOut, kg_ids, mergedOut>>
    /\ UNCHANGED <<normVars, parseVars, batchVars, mergeVars, queryVars, scriptVars>>
    /\ UNCHANGED <<historyVars, requestVars>>

PersistNext == SaveKnowledgeGraph \/ LoadKnowledgeGraph \/ MergeKnowledgeGraphs \/ QueryEngineRead

SpecPersist == PersistInit /\ [][PersistNext]_vars

\* C29: after save_knowledge_graph(G) succeeded, what load_knowledge_graph
\* returned on G's id is a graph equal to G, what merge_knowledge_graphs
\* returned on a list holding G's id is a graph, not None, and the rows the
\* query engine got from the directory are the rows of its query on G.
CexC29_SavedGraphIsLoadedBack ==
    /\ loadOut # Pending => loadOut.val = savedKg
    /\ mergedOut # Pending => mergedOut.val # JNull
    /\ readOut # Pending =>
          readOut.val = _execute_query_on_graph(savedKg, "MATCH (n:equipment) RETURN n", 10)

(***************************************************************************)
(* SpecRequest: one APIClient.request call (utils/api_utils.py; the loop   *)
(* of api/client.py is the same, statement for statement) with retries     *)
(* from 0 to MaxRetries.  Each attempt returns a response or fails in one  *)
(* of its three calls.                                                     *)
(***************************************************************************)
MaxRetries == 3

Backoffs == {1, 3}

Responses == {"response a", "response b"}

\* what fails in an attempt: requests.request (line 77), raise_for_status
\* (line 87), response.json() (line 88)
RequestFailures == {"ConnectionError", "HTTPError", "JSONDecodeError"}

RequestInit ==
    /\ retries \in 0..MaxRetries
    /\ backoff \in Backoffs
    /\ attempt = 0
    /\ tried = <<>>
    /\ sleeps = <<>>
    /\ requestPc = "idle"
    /\ requestOut = Pending
    /\ NormIdle
    /\ ParseIdle
    /\ BatchIdle
    /\ MergeIdle
    /\ QueryIdle
    /\ ScriptIdle
    /\ HistoryIdle
    /\ PersistIdle

\* lines 57-72: the timeout, the headers, last_exception = None
Request ==
    /\ requestPc = "idle"
    /\ requestPc' = "loop"
    /\ UNCHANGED <<retries, backoff, attempt, tried, sleeps, requestOut>>
    /\ UNCHANGED <<normVars, parseVars, batchVars, mergeVars, queryVars, scriptVars>>
    /\ UNCHANGED <<historyVars, persistVars>>

\* lines 74-88: the next attempt of range(retries) returns response.json()
AttemptReturns ==
    /\ requestPc = "loop"
    /\ attempt < retries
    /\ \E response \in Responses :
         /\ tried' = Append(tried, [kind |-> "ok", response |-> response])
         /\ requestOut' = Returned(response)
    /\ requestPc' = "returned"
    /\ UNCHANGED <<retries, backoff, attempt, sleeps>>
    /\ UNCHANGED <<normVars, parseVars, batchVars, mergeVars, queryVars, scriptVars>>
    /\ UNCHANGED <<historyVars, persistVars>>

AttemptFails_sleeps_after_every_failure ==
    /\ requestPc = "loop"
    /\ attempt < retries
    /\ \E exception \in RequestFailures :
         tried' = Append(tried, [kind |-> exception, response |-> ""])
    /\ sleeps' = Append(sleeps, backoff * (2 ^ attempt))
    /\ attempt' = attempt + 1
    /\ UNCHANGED <<retries, backoff, requestPc, requestOut>>
    /\ UNCHANGED <<normVars, parseVars, batchVars, mergeVars, queryVars, scriptVars>>
    /\ UNCHANGED <<historyVars, persistVars>>

\* lines 74-98: the next attempt of range(retries) raises; the exception is
\* kept and, when attempt < retries - 1, time.sleep(backoff * 2 ** attempt)
AttemptFails ==
    /\ requestPc = "loop"
    /\ attempt < retries
    /\ \E exception \in RequestFailures :
         tried' = Append(tried, [kind |-> exception, response |-> ""])
    /\ sleeps' = IF attempt < retries - 1 THEN Append(sleeps, backoff * (2 ^ attempt)) ELSE sleeps
    /\ attempt' = attempt + 1
    /\ UNCHANGED <<retries, backoff, requestPc, requestOut>>
    /\ UNCHANGED <<normVars, parseVars, batchVars, mergeVars, queryVars, scriptVars>>
    /\ UNCHANGED <<historyVars, persistVars>>

\* lines 100-103: range(retries) is exhausted; raise Exception(error_msg)
RaiseAfterLoop ==
    /\ requestPc = "loop"
    /\ attempt >= retries
    /\ requestPc' = "raised"
    /\ requestOut' = Raised("Exception")
    /\ UNCHANGED <<retries, backoff, attempt, tried, sleeps>>
    /\ UNCHANGED <<normVars, parseVars, batchVars, mergeVars, queryVars, scriptVars>>
    /\ UNCHANGED <<historyVars, persistVars>>

RequestNext == Request \/ AttemptReturns \/ AttemptFails \/ RaiseAfterLoop

SpecRequest == RequestInit /\ [][RequestNext]_vars

\* C30: in a request call with retries = n >= 1, at every time: at most n
\* attempts were made; every attempt before the last one made failed; the
\* waits so far are backoff * 2^k for the failed attempts k = 0, 1, ... that
\* another attempt could follow (k < n - 1), in that order, and no other;
\* a call that returned made its last attempt successfully and returned
\* that attempt's response; a call that raised made exactly n attempts, all
\* failed; a call does not return or raise otherwise.
ThmC30_RetryLoop ==
    retries >= 1 =>
        LET made == Len(tried)
            failed_attempts == {k \in 1..made : tried[k].kind # "ok"}
            waits == IF Cardinality(failed_attempts) < retries - 1
                       THEN Cardinality(failed_attempts) ELSE retries - 1
        IN  /\ made <= retries
            /\ 1..(made - 1) \subseteq failed_attempts
            /\ sleeps = [k \in 1..waits |-> backoff * (2 ^ (k - 1))]
            /\ requestPc = "returned" <=> (made >= 1 /\ made \notin failed_attempts)
            /\ requestPc = "returned" => requestOut = Returned(tried[made].response)
            /\ requestPc = "raised" =>
                  made = retries /\ failed_attempts = 1..made /\ requestOut = Raised("Exception")
            /\ requestPc \in {"idle", "loop"} => requestOut = Pending

\* retries = 3: two failed attempts, two waits, and the third attempt's
\* response returned
WitC30_ThirdAttemptReturned ==
    /\ retries = 3 /\ backoff = 3
    /\ Len(tried) = 3 /\ tried[1].kind = "ConnectionError" /\ tried[2].kind = "HTTPError"
    /\ sleeps = <<3, 6>>
    /\ requestOut = Returned("response b")

====
